---- MODULE Spec2Model ----
(***************************************************************************)
(* A model of the BM1398 userspace driver (src/hashsource_x19): the MMIO   *)
(* window of the FPGA, the UART-over-FPGA command channel, chain reset and *)
(* enumeration, chain bring-up, work submission and nonce collection.      *)
(*                                                                         *)
(* A 32-bit word is a 4-tuple of bytes, most significant byte first:       *)
(* 0x01800000 is <<\h01, \h80, \h00, \h00>>.  (TLC's integers are signed   *)
(* 32-bit, so a uint32_t cannot be one integer.)                           *)
(***************************************************************************)
EXTENDS Integers, Sequences, FiniteSets, TLC

VARIABLES
    regs,             \* ctx->fpga_regs: the mapped window, word offset -> word
    chips_per_chain,  \* ctx->chips_per_chain
    nonceFifo,        \* hardware: the words reads of the return-nonce FIFO will pop
    stack,            \* the running call and its callers, innermost first
    status,           \* "idle", "running", "returned" or "killed"
    ret,              \* the return value of the call that returned last
    out,              \* the nonce records the running call has stored
    trace,            \* the effects of the top-level call, in order
    timeouts,         \* the UART sends of the top-level call that have timed out
    sentAfterFail,    \* a UART command was sent after one had failed
    checkedFail,      \* a send whose result its caller checks has timed out
    hist,             \* what the polls of the top-level call have read
    call,             \* the top-level call: its function, chain and argument
    entry,            \* the window and the return FIFO when the top-level call was made
    submitter,        \* a second caller, running bm1398_send_work or bm1398_read_nonce
                      \* beside the first
    workFifo,         \* hardware: the words stored to the work FIFO at 0x040, in order
    ctx               \* the caller's bm1398_context_t: what fpga_regs points to, initialized

vars == <<regs, chips_per_chain, nonceFifo, stack, status, ret, out, trace,
          timeouts, sentAfterFail, checkedFail, hist, call, entry, submitter, workFifo,
          ctx>>

----------------------------------------------------------------------------
(* Bounds of the model. *)

MaxTimeouts == 2     \* UART sends that time out in one top-level call
MaxSmallChips == 3   \* bm1398_enumerate_chips is also run with N = 1..MaxSmallChips
MaxStale == 2        \* entries in the return-nonce FIFO at the start
MaxRead == 3         \* largest max_count passed to bm1398_read_nonces
MaxPolls == 2        \* polls of 0x00C the second caller makes one step at a time
MaxWrites == 2       \* fpga_write_indirect calls a caller makes before it reads back
MaxApart == 2        \* distance (mod 110) of the index read from the index written

----------------------------------------------------------------------------
(* Constants of the program. *)

FPGA_REG_SIZE == 5120
FPGA_REGISTER_MAP_SIZE == 110
MAX_CHAINS == 3
CHIPS_PER_CHAIN_S19PRO == 114
FREQUENCY_525MHZ == 525
BAUD_RATE_12MHZ == 12000000

REG_BUFFER_SPACE == 3              \* 0x00C / 4
REG_RETURN_NONCE == 4              \* 0x010 / 4
REG_NONCE_NUMBER_IN_FIFO == 6      \* 0x018 / 4
REG_RESET_HASHBOARD_COMMAND == 13  \* 0x034 / 4
REG_BC_WRITE_COMMAND == 48         \* 0x0C0 / 4
REG_BC_COMMAND_BUFFER == 49        \* 0x0C4 / 4

REG_I2C_CTRL == 12                 \* 0x0C, used as a word index: byte 0x030
I2C_TIMEOUT_MS == 1000

FPGA_REG_TW_WRITE_CMD_FIRST == 16
FPGA_REG_TW_WRITE_CMD_REST == 17
FPGA_REG_TIMEOUT == 20
FPGA_REG_CONTROL == 0
FPGA_REG_WORK_CTRL_ENABLE == 35
FPGA_REG_CHAIN_WORK_CONFIG == 36
FPGA_REG_WORK_QUEUE_PARAM == 42
REG_HASH_ON_PLUG == 2               \* 0x008 / 4

ASIC_REG_PLL_PARAM_0 == 8               \* 0x08
ASIC_REG_TICKET_MASK == 20              \* 0x14
ASIC_REG_CLK_CTRL == 24                 \* 0x18
ASIC_REG_BAUD_CONFIG == 40              \* 0x28
ASIC_REG_RESET_CTRL == 52               \* 0x34
ASIC_REG_CORE_CONFIG == 60              \* 0x3C
ASIC_REG_CORE_PARAM == 68               \* 0x44
ASIC_REG_DIODE_MUX == 84                \* 0x54
ASIC_REG_IO_DRIVER == 88                \* 0x58
ASIC_REG_PLL_PARAM_1 == 96              \* 0x60
ASIC_REG_PLL_PARAM_2 == 100             \* 0x64
ASIC_REG_PLL_PARAM_3 == 104             \* 0x68
ASIC_REG_SOFT_RESET == 168              \* 0xA8

CMD_PREAMBLE_SET_ADDRESS == 64          \* 0x40
CMD_PREAMBLE_WRITE_REG == 65            \* 0x41
CMD_PREAMBLE_READ_REG == 66             \* 0x42
CMD_PREAMBLE_WRITE_BCAST == 81          \* 0x51
CMD_PREAMBLE_READ_BCAST == 82           \* 0x52
CMD_PREAMBLE_CHAIN_INACTIVE == 83       \* 0x53
CMD_LEN_ADDRESS == 5
CMD_LEN_WRITE_REG == 9

CORE_CONFIG_BASE == <<\h80, \h00, \h87, \h00>>
CORE_CONFIG_ENABLE == <<\h80, \h00, \h82, \hAA>>
CORE_CONFIG_NONCE_OVF_DIS == <<\h80, \h00, \h8D, \h15>>
SOFT_RESET_MASK == <<\h00, \h00, \h01, \hF0>>
TICKET_MASK_ALL_CORES == <<\hFF, \hFF, \hFF, \hFF>>
BC_COMMAND_BUFFER_READY == <<\h80, \h00, \h00, \h00>>

----------------------------------------------------------------------------
(* uint32_t and uint8_t arithmetic. *)

Zero32 == <<0, 0, 0, 0>>

RECURSIVE BitAnd(_, _)
BitAnd(a, b) ==
    IF a = 0 \/ b = 0 THEN 0
    ELSE (a % 2) * (b % 2) + 2 * BitAnd(a \div 2, b \div 2)

RECURSIVE BitOr(_, _)
BitOr(a, b) ==
    IF a = 0 THEN b
    ELSE IF b = 0 THEN a
    ELSE (IF a % 2 = 1 \/ b % 2 = 1 THEN 1 ELSE 0) + 2 * BitOr(a \div 2, b \div 2)

RECURSIVE BitXor(_, _)
BitXor(a, b) ==
    IF a = 0 THEN b
    ELSE IF b = 0 THEN a
    ELSE ((a + b) % 2) + 2 * BitXor(a \div 2, b \div 2)

RECURSIVE Pow2(_)
Pow2(n) == IF n = 0 THEN 1 ELSE 2 * Pow2(n - 1)

Or32(x, y) == <<BitOr(x[1], y[1]), BitOr(x[2], y[2]), BitOr(x[3], y[3]), BitOr(x[4], y[4])>>

And32(x, y) == <<BitAnd(x[1], y[1]), BitAnd(x[2], y[2]), BitAnd(x[3], y[3]), BitAnd(x[4], y[4])>>

Not32(x) == <<255 - x[1], 255 - x[2], 255 - x[3], 255 - x[4]>>

\* (uint32_t)n for 0 <= n < 2^31
U32(n) == <<(n \div 16777216) % 256, (n \div 65536) % 256, (n \div 256) % 256, n % 256>>

\* 1 << n, 0 <= n <= 31
Bit32(n) == [k \in 1..4 |-> IF k = 4 - (n \div 8) THEN Pow2(n % 8) ELSE 0]

\* bit n of the word x is set
BitSet(x, n) == And32(x, Bit32(n)) # Zero32

\* x << 3 in uint32_t
Shl3(x) ==
    <<((x[1] * 8) % 256) + (x[2] \div 32), ((x[2] * 8) % 256) + (x[3] \div 32),
      ((x[3] * 8) % 256) + (x[4] \div 32), (x[4] * 8) % 256>>

\* memcpy of up to four bytes into a zeroed uint32_t on the little-endian ARM
LoadLE(bytes) ==
    LET b(k) == IF k <= Len(bytes) THEN bytes[k] ELSE 0
    IN  <<b(4), b(3), b(2), b(1)>>

\* the bytes of a uint32_t in memory on the little-endian ARM
StoreLE(x) == <<x[4], x[3], x[2], x[1]>>

\* a word stored without the byte swap
bswap32_missing(x) == x

__builtin_bswap32(x) == <<x[4], x[3], x[2], x[1]>>

----------------------------------------------------------------------------
(* The MMIO window and the indirect register map. *)

WindowWords == FPGA_REG_SIZE \div 4

\* the table with entry 17 as the comment in bm1398_asic.h describes it (word 16)
RegisterMapPerHeader ==
    << 0, 1, 2, 3, 4, 6, 7, 8, 9, 10, 11, 12, 13, 14, 15, 16,
       16, 16, 33, 34, 35, 36, 37, 38, 0, 48, 49, 60, 62, 63, 64, 65,
       66, 68, 69, 70, 71, 72, 73, 76, 77, 78, 80, 96, 97, 98, 99, 100,
       101, 102, 103, 104, 105, 106, 107, 108, 109, 110, 111, 112, 113, 114, 115, 116,
       117, 118, 119, 124, 125, 126, 127, 128, 129, 130, 132, 133, 134, 135, 136, 137,
       138, 139, 140, 141, 142, 143, 144, 145, 146, 147, 148, 149, 150, 151, 152, 153,
       154, 155, 156, 157, 158, 159, 164, 165, 166, 167, 168, 169,
       0, 0 >>

fpga_register_map ==
    << 0, 1, 2, 3, 4, 6, 7, 8, 9, 10, 11, 12, 13, 14, 15, 16,
       16, 32, 33, 34, 35, 36, 37, 38, 0, 48, 49, 60, 62, 63, 64, 65,
       66, 68, 69, 70, 71, 72, 73, 76, 77, 78, 80, 96, 97, 98, 99, 100,
       101, 102, 103, 104, 105, 106, 107, 108, 109, 110, 111, 112, 113, 114, 115, 116,
       117, 118, 119, 124, 125, 126, 127, 128, 129, 130, 132, 133, 134, 135, 136, 137,
       138, 139, 140, 141, 142, 143, 144, 145, 146, 147, 148, 149, 150, 151, 152, 153,
       154, 155, 156, 157, 158, 159, 164, 165, 166, 167, 168, 169,
       0, 0 >>   \* [108], [109]: the initialiser list has 108 values

\* MapWord taking the logical index for the word offset
MapWordDirect(logical_index) == logical_index

\* the word offset a valid logical index resolves to
MapWord(logical_index) == fpga_register_map[logical_index + 1]

ValidIndex(logical_index) ==
    logical_index >= 0 /\ logical_index < FPGA_REGISTER_MAP_SIZE

\* the value fpga_read_indirect returns from window r
fpga_read_indirect(r, logical_index) ==
    IF ~ValidIndex(logical_index) THEN Zero32 ELSE r[MapWord(logical_index)]

\* the window after fpga_write_indirect on window r
fpga_write_indirect(r, logical_index, value) ==
    IF ~ValidIndex(logical_index) THEN r
    ELSE [r EXCEPT ![MapWord(logical_index)] = value]

\* Entries of trace.
EvSleep(us) == <<"sleep", us>>
EvRead(word) == <<"read", word>>
EvWrite(word, value) == <<"write", word, value>>
EvUart(chain, frame) == <<"uart", chain, frame>>

\* what fpga_write_indirect adds to the trace
IndirectWriteEvents(logical_index, value) ==
    IF ~ValidIndex(logical_index) THEN <<>>
    ELSE <<EvWrite(MapWord(logical_index), value)>>

\* the word at byte offset 0x040
WorkFifoWord == 16

\* the work FIFO after fpga_write_indirect(logical_index, value): a store to
\* 0x040 pushes its value
WorkFifoAfter(fifo, logical_index, value) ==
    IF ValidIndex(logical_index) /\ MapWord(logical_index) = WorkFifoWord
    THEN Append(fifo, value) ELSE fifo

IndirectReadEvents(logical_index) ==
    IF ~ValidIndex(logical_index) THEN <<>> ELSE <<EvRead(MapWord(logical_index))>>

----------------------------------------------------------------------------
(* CRC5 and the command frames. *)

\* Crc5Step testing bit 0 of crc where the code tests bit 4
Crc5StepLowBit(crc, bit) ==
    LET shifted == BitOr((crc * 2) % 256, bit)
        next == IF BitAnd(crc, 1) # bit THEN BitXor(shifted, 5) ELSE shifted
    IN  BitAnd(next, 31)

\* one iteration of the loop of bm1398_crc5; crc is a uint8_t
Crc5Step(crc, bit) ==
    LET shifted == BitOr((crc * 2) % 256, bit)
        next == IF BitAnd(crc, 16) # bit * 16 THEN BitXor(shifted, 5) ELSE shifted
    IN  BitAnd(next, 31)

\* Crc5Step for every value crc & 0x1F can take
Crc5Table == [crc \in 0..31 |-> [bit \in 0..1 |-> Crc5Step(crc, bit)]]

\* the bits of a byte, most significant first
ByteBits == [byte \in 0..255 |-> [j \in 0..7 |-> (byte \div Pow2(7 - j)) % 2]]

RECURSIVE Crc5From(_, _, _, _)
Crc5From(data, k, bits, crc) ==
    IF crc > 31 \/ k >= bits THEN crc
    ELSE Crc5From(data, k + 1, bits, Crc5Table[crc][ByteBits[data[(k \div 8) + 1]][k % 8]])

bm1398_crc5(data, bits) == Crc5From(data, 0, bits, 31)

ChainInactiveFrame ==
    LET cmd == <<CMD_PREAMBLE_CHAIN_INACTIVE, CMD_LEN_ADDRESS, 0, 0>>
    IN  Append(cmd, bm1398_crc5(cmd, 32))

SetAddressFrame(addr) ==
    LET cmd == <<CMD_PREAMBLE_SET_ADDRESS, CMD_LEN_ADDRESS, addr, 0>>
    IN  Append(cmd, bm1398_crc5(cmd, 32))

WriteRegisterFrame(broadcast, chip_addr, reg_addr, value) ==
    LET cmd == <<IF broadcast THEN CMD_PREAMBLE_WRITE_BCAST ELSE CMD_PREAMBLE_WRITE_REG,
                 CMD_LEN_WRITE_REG, chip_addr, reg_addr,
                 value[1], value[2], value[3], value[4]>>
    IN  Append(cmd, bm1398_crc5(cmd, 64))

\* ReadRegisterFrame with the CRC taken over the first 32 bits only
ReadRegisterFrameCrc32(broadcast, chip_addr, reg_addr) ==
    LET cmd == <<IF broadcast THEN CMD_PREAMBLE_READ_BCAST ELSE CMD_PREAMBLE_READ_REG,
                 CMD_LEN_WRITE_REG, chip_addr, reg_addr, 0, 0, 0, 0>>
    IN  Append(cmd, bm1398_crc5(cmd, 32))

ReadRegisterFrame(broadcast, chip_addr, reg_addr) ==
    LET cmd == <<IF broadcast THEN CMD_PREAMBLE_READ_BCAST ELSE CMD_PREAMBLE_READ_REG,
                 CMD_LEN_WRITE_REG, chip_addr, reg_addr, 0, 0, 0, 0>>
    IN  Append(cmd, bm1398_crc5(cmd, 64))

----------------------------------------------------------------------------
(* The UART transport. *)

UartPollBudget == 10000

\* int timeout = 1000; in bm1398_send_work
WorkFifoBudget == 1000

\* The polls of 0x0C0 at which the hardware is taken to clear bit 31: at the
\* first poll, or at no poll within the budget.
UartClearPolls == {0, UartPollBudget}

BC_CHAIN_ID(id) == <<0, BitAnd(id, 15), 0, 0>>

\* cmd[4k .. 4k+3] of a command of len bytes, for the k-th data word
CmdGroup(cmd, k) ==
    LET n == IF Len(cmd) - 4 * k > 4 THEN 4 ELSE Len(cmd) - 4 * k
    IN  SubSeq(cmd, 4 * k + 1, 4 * k + n)

RECURSIVE StoreCmdWords(_, _, _)
StoreCmdWords(r, cmd, k) ==
    IF k >= (Len(cmd) + 3) \div 4 THEN r
    ELSE StoreCmdWords(
             [r EXCEPT ![REG_BC_COMMAND_BUFFER + k] = __builtin_bswap32(LoadLE(CmdGroup(cmd, k)))],
             cmd, k + 1)

\* bm1398_send_uart_cmd on an initialised context with chain in 0..2 and a
\* non-null cmd, when the hardware clears bit 31 of 0x0C0 at poll clearsAt
\* (counted from 0): the window afterwards and the return value.
bm1398_send_uart_cmd(r, chain, cmd, clearsAt) ==
    IF Len(cmd) = 0 \/ Len(cmd) > 12 THEN [regs |-> r, ret |-> -1]
    ELSE LET trigger == Or32(BC_COMMAND_BUFFER_READY, BC_CHAIN_ID(chain))
             stored == [StoreCmdWords(r, cmd, 0) EXCEPT ![REG_BC_WRITE_COMMAND] = trigger]
             done == clearsAt < UartPollBudget
         IN  [regs |-> IF done
                       THEN [stored EXCEPT ![REG_BC_WRITE_COMMAND] =
                                               And32(trigger, Not32(BC_COMMAND_BUFFER_READY))]
                       ELSE stored,
              ret |-> IF done THEN 0 ELSE -1]

----------------------------------------------------------------------------
(* The statements of the driver's functions.  A function body is a sequence *)
(* of statements; stack holds a frame [fn, chain, arg, pc, loc] per call.   *)

usleep(us) == [us |-> us, op |-> "usleep"]

sleep(seconds) == [us |-> seconds * 1000000, op |-> "usleep"]

\* a call whose result the caller ignores
bm1398_write_register(broadcast, chip_addr, reg_addr, value) ==
    [frame |-> WriteRegisterFrame(broadcast, chip_addr, reg_addr, value),
     op |-> "send", checked |-> FALSE]

bm1398_chain_inactive ==
    [frame |-> ChainInactiveFrame, op |-> "send", checked |-> FALSE]

Call(fn, arg) == [op |-> "call", checked |-> FALSE, fn |-> fn, arg |-> arg]

\* if (stmt < 0) return -1;
Checked(stmt) == [stmt EXCEPT !.checked = TRUE]

Return(val) == [op |-> "return", val |-> val]

bm1398_chain_reset_low == <<[op |-> "reset_line", assert |-> TRUE], Return(0)>>

bm1398_chain_reset_high == <<[op |-> "reset_line", assert |-> FALSE], Return(0)>>

bm1398_hardware_reset_chain ==
    << usleep(700000),
       Call("bm1398_chain_reset_low", 0), usleep(10000),
       Call("bm1398_chain_reset_high", 0), usleep(72000),
       Call("bm1398_chain_reset_low", 0), usleep(10000),
       Call("bm1398_chain_reset_high", 0), usleep(10000),
       Return(0) >>

bm1398_enumerate_chips ==
    << Checked(bm1398_chain_inactive), usleep(10000),
       [op |-> "enum_interval"],
       [op |-> "enum_loop"],
       [op |-> "return_errors"] >>

\* bm1398_reset_chain_stage1 with the core reset enabled after it is disabled
reset_chain_stage1_swapped ==
    << bm1398_write_register(TRUE, 0, ASIC_REG_CLK_CTRL, <<\h00, \h00, \h00, \h00>>),
       usleep(10000),
       bm1398_write_register(TRUE, 0, ASIC_REG_RESET_CTRL, <<\h00, \h00, \h00, \h00>>),
       usleep(10000),
       bm1398_write_register(TRUE, 0, ASIC_REG_CLK_CTRL, <<\hF0, \h00, \h00, \h00>>),
       usleep(10000),
       bm1398_write_register(TRUE, 0, ASIC_REG_CLK_CTRL, <<\h0F, \h40, \h00, \h00>>),
       usleep(10000),
       bm1398_write_register(TRUE, 0, ASIC_REG_CLK_CTRL, <<\hF0, \h00, \h04, \h00>>),
       usleep(10000),
       bm1398_write_register(TRUE, 0, ASIC_REG_RESET_CTRL, <<\h00, \h00, \h00, \h08>>),
       usleep(10000),
       Checked(bm1398_write_register(TRUE, 0, ASIC_REG_TICKET_MASK, TICKET_MASK_ALL_CORES)),
       usleep(50000),
       Return(0) >>

bm1398_reset_chain_stage1 ==
    << bm1398_write_register(TRUE, 0, ASIC_REG_CLK_CTRL, <<\h00, \h00, \h00, \h00>>),
       usleep(10000),
       bm1398_write_register(TRUE, 0, ASIC_REG_RESET_CTRL, <<\h00, \h00, \h00, \h00>>),
       usleep(10000),
       bm1398_write_register(TRUE, 0, ASIC_REG_CLK_CTRL, <<\h0F, \h40, \h00, \h00>>),
       usleep(10000),
       bm1398_write_register(TRUE, 0, ASIC_REG_CLK_CTRL, <<\hF0, \h00, \h00, \h00>>),
       usleep(10000),
       bm1398_write_register(TRUE, 0, ASIC_REG_CLK_CTRL, <<\hF0, \h00, \h04, \h00>>),
       usleep(10000),
       bm1398_write_register(TRUE, 0, ASIC_REG_RESET_CTRL, <<\h00, \h00, \h00, \h08>>),
       usleep(10000),
       Checked(bm1398_write_register(TRUE, 0, ASIC_REG_TICKET_MASK, TICKET_MASK_ALL_CORES)),
       usleep(50000),
       Return(0) >>

\* BaudDiv without the "- 1"
BaudDivWhole(base, baud_rate) == base \div (baud_rate * 8)

\* baud_div as set_baud_rate computes it, in uint32_t (baud_rate * 8 < 2^31 here)
BaudDiv(base, baud_rate) == (base \div (baud_rate * 8)) - 1

ClkCtrlValue(base_value, baud_div) ==
    Or32(Or32(base_value, <<0, 0, BitAnd(baud_div \div 32, 15), 0>>),
         <<0, 0, 0, BitAnd(baud_div, 31)>>)

bm1398_set_baud_rate(baud_rate) ==
    IF baud_rate > 3000000
    THEN << bm1398_write_register(TRUE, 0, ASIC_REG_PLL_PARAM_3, <<\hC0, \h70, \h01, \h11>>),
            usleep(10000),
            bm1398_write_register(TRUE, 0, ASIC_REG_BAUD_CONFIG, <<\h06, \h00, \h8F, \h00>>),
            usleep(10000),
            Checked(bm1398_write_register(TRUE, 0, ASIC_REG_CLK_CTRL,
                Or32(ClkCtrlValue(<<\hF0, \h00, \h00, \h00>>, BaudDiv(400000000, baud_rate)),
                     <<\h00, \h01, \h00, \h00>>))),
            usleep(50000),
            Return(0) >>
    ELSE << Checked(bm1398_write_register(TRUE, 0, ASIC_REG_CLK_CTRL,
                ClkCtrlValue(<<\hF0, \h00, \h04, \h00>>, BaudDiv(25000000, baud_rate)))),
            usleep(50000),
            Return(0) >>

\* PllValue with bit 28 set over the whole VCO range 1600..3200
PllValueHighRange(refdiv_reg, fbdiv_reg, postdiv1_reg, postdiv2_reg, vco) ==
    LET base == Or32(<<\h40, \h00, \h00, \h00>>,
                     <<(fbdiv_reg \div 256) % 16, fbdiv_reg % 256,
                       BitAnd(postdiv1_reg, 63),
                       BitOr(BitAnd(postdiv2_reg, 7), BitAnd(refdiv_reg, 7) * 16)>>)
    IN  IF vco >= 1600 /\ vco <= 3200 THEN Or32(base, <<\h10, \h00, \h00, \h00>>) ELSE base

\* pll_value of bm1398_set_frequency from the stored divider fields
PllValue(refdiv_reg, fbdiv_reg, postdiv1_reg, postdiv2_reg, vco) ==
    LET base == Or32(<<\h40, \h00, \h00, \h00>>,
                     <<(fbdiv_reg \div 256) % 16, fbdiv_reg % 256,
                       BitAnd(postdiv1_reg, 63),
                       BitOr(BitAnd(postdiv2_reg, 7), BitAnd(refdiv_reg, 7) * 16)>>)
    IN  IF vco >= 2400 /\ vco <= 3200 THEN Or32(base, <<\h10, \h00, \h00, \h00>>) ELSE base

\* a frequency other than 525 is warned about and the values of 525 are used
bm1398_set_frequency(freq_mhz) ==
    LET refdiv_reg == IF freq_mhz = 525 THEN 0 ELSE 0
        fbdiv_reg == IF freq_mhz = 525 THEN 84 ELSE 84
        postdiv1_reg == IF freq_mhz = 525 THEN 1 ELSE 1
        postdiv2_reg == IF freq_mhz = 525 THEN 0 ELSE 0
        vco == (25 * fbdiv_reg) \div (refdiv_reg + 1)
    IN  IF ~(vco >= 2400 /\ vco <= 3200) /\ (vco < 1600 \/ vco > 3200)
        THEN << Return(-1) >>
        ELSE << Checked(bm1398_write_register(TRUE, 0, ASIC_REG_PLL_PARAM_0,
                    PllValue(refdiv_reg, fbdiv_reg, postdiv1_reg, postdiv2_reg, vco))),
                usleep(10000),
                Return(0) >>

diode_vdd_mux_sel == 3

CoreCfg == Or32(CORE_CONFIG_BASE, <<0, 0, 0, BitAnd(1, 3) * 16>>)

\* core_param with pwth_sel = 1, ccdly_sel = 1, swpf_mode = 0
CoreParam == Or32(<<0, 0, 0, BitAnd(1, 7) * 8>>, <<0, 0, 0, BitAnd(1, 3) * 64>>)

bm1398_configure_chain_stage2 ==
    << Checked(bm1398_write_register(TRUE, 0, ASIC_REG_DIODE_MUX, U32(diode_vdd_mux_sel))),
       usleep(10000),
       Checked(bm1398_chain_inactive), usleep(10000),
       Checked(Call("bm1398_set_baud_rate", 115200)), usleep(50000),
       Checked(Call("bm1398_enumerate_chips", 0)), usleep(10000),
       Checked(bm1398_write_register(TRUE, 0, ASIC_REG_CORE_CONFIG, <<\h80, \h00, \h85, \h1F>>)),
       usleep(10000),
       Checked(bm1398_write_register(TRUE, 0, ASIC_REG_CORE_CONFIG, <<\h80, \h00, \h06, \h00>>)),
       usleep(10000),
       Checked(bm1398_write_register(TRUE, 0, ASIC_REG_CORE_CONFIG, CoreCfg)), usleep(10000),
       Checked(bm1398_write_register(TRUE, 0, ASIC_REG_CORE_PARAM, CoreParam)), usleep(10000),
       bm1398_write_register(TRUE, 0, ASIC_REG_IO_DRIVER, <<\h00, \h00, \h00, \h10>>),
       usleep(10000),
       bm1398_write_register(TRUE, 0, ASIC_REG_PLL_PARAM_0, Zero32), usleep(10000),
       bm1398_write_register(TRUE, 0, ASIC_REG_PLL_PARAM_1, Zero32), usleep(10000),
       bm1398_write_register(TRUE, 0, ASIC_REG_PLL_PARAM_2, Zero32), usleep(10000),
       bm1398_write_register(TRUE, 0, ASIC_REG_PLL_PARAM_3, Zero32), usleep(10000),
       Call("bm1398_set_frequency", FREQUENCY_525MHZ),
       usleep(500000),
       Checked(Call("bm1398_set_baud_rate", BAUD_RATE_12MHZ)), usleep(50000),
       [op |-> "drain", checked |-> FALSE], usleep(10000),
       usleep(50000),
       bm1398_write_register(TRUE, 0, ASIC_REG_SOFT_RESET, SOFT_RESET_MASK), usleep(100000),
       bm1398_write_register(TRUE, 0, ASIC_REG_CLK_CTRL, <<\hF0, \h00, \h00, \h00>>),
       usleep(100000),
       bm1398_write_register(TRUE, 0, ASIC_REG_CORE_CONFIG, CoreCfg), usleep(100000),
       bm1398_write_register(TRUE, 0, ASIC_REG_CORE_PARAM, CoreParam), usleep(100000),
       bm1398_write_register(TRUE, 0, ASIC_REG_CORE_CONFIG, CORE_CONFIG_ENABLE), usleep(100000),
       sleep(2),
       [op |-> "read_indirect", index |-> FPGA_REG_TIMEOUT], usleep(10000),
       usleep(10000),
       bm1398_write_register(TRUE, 0, ASIC_REG_CORE_CONFIG, CORE_CONFIG_NONCE_OVF_DIS),
       usleep(10000),
       Return(0) >>

\* bm1398_init_chain with stage 2 run before stage 1
init_chain_stage2_first ==
    << Checked(Call("bm1398_hardware_reset_chain", 0)),
       Checked(Call("bm1398_configure_chain_stage2", diode_vdd_mux_sel)),
       Checked(Call("bm1398_reset_chain_stage1", 0)),
       Return(0) >>

bm1398_init_chain ==
    << Checked(Call("bm1398_hardware_reset_chain", 0)),
       Checked(Call("bm1398_reset_chain_stage1", 0)),
       Checked(Call("bm1398_configure_chain_stage2", diode_vdd_mux_sel)),
       Return(0) >>

bm1398_read_nonce == << [op |-> "read_nonce"], Return(1) >>

\* bm1398_send_uart_cmd called on its own: the checks and the stores, the
\* wait for bit 31 of 0x0C0, the test of timeout
send_uart_cmd_body ==
    << [op |-> "uart_store"], [op |-> "uart_wait"], [op |-> "uart_wait_check"], Return(0) >>

\* i2c_wait_ready and i2c_wait_data: the loop, then return -1
i2c_wait_ready == << [data |-> FALSE, op |-> "i2c_wait"], Return(-1) >>

i2c_wait_data == << [data |-> TRUE, op |-> "i2c_wait"], Return(-1) >>

\* fpga_write_indirect and fpga_read_indirect called on their own
fpga_write_indirect_body == << [op |-> "write_indirect"] >>

fpga_read_indirect_body == << [op |-> "load_indirect"] >>

\* a caller that writes one logical index a.writes times and reads it back
write_then_read(a) ==
    [k \in 1..(a.writes + 1) |->
        IF k <= a.writes
        THEN Call("fpga_write_indirect", [value |-> a.value, index |-> a.index, mapped |-> a.mapped])
        ELSE Call("fpga_read_indirect", [index |-> a.index, mapped |-> a.mapped])]
    \o << Return(0) >>

\* the words bm1398_init stores last
Pt2Values ==
    (0 :> <<\h40, \h00, \hB0, \h31>>) @@ (1 :> <<\h00, \h00, \h03, \h08>>) @@
    (2 :> <<\h00, \h00, \h00, \h01>>) @@ (3 :> <<\h00, \h00, \h00, \h01>>) @@
    (4 :> <<\h00, \h00, \h40, \h0D>>) @@ (5 :> <<\h55, \h55, \hAA, \hAA>>) @@
    (7 :> <<\h00, \h80, \h00, \h01>>) @@ (12 :> <<\h82, \h40, \h00, \h01>>) @@
    (13 :> <<\h00, \h00, \hFF, \hF8>>) @@ (15 :> <<\h00, \h00, \h00, \h1A>>) @@
    (32 :> <<\h80, \h80, \h80, \h00>>) @@ (33 :> <<\h00, \h00, \h00, \h64>>) @@
    (34 :> <<\h00, \h00, \h9C, \h40>>) @@ (35 :> <<\h80, \h00, \h00, \hF9>>) @@
    (40 :> <<\h00, \h00, \h00, \h64>>) @@ (48 :> <<\h00, \h80, \h00, \h00>>) @@
    (49 :> <<\h52, \h05, \h00, \h00>>) @@ (50 :> <<\h0A, \h00, \h00, \h00>>) @@
    (60 :> <<\h2B, \h10, \h48, \h14>>) @@ (61 :> <<\h81, \h50, \hF4, \h04>>) @@
    (62 :> <<\h00, \h00, \h01, \hCD>>) @@ (70 :> <<\h00, \h00, \h80, \h60>>) @@
    (71 :> <<\h00, \h00, \h72, \h00>>) @@ (80 :> <<\h00, \h00, \h36, \h48>>)

\* Pt2Order without the store to 0x08C
Pt2OrderWithoutTimeout ==
    <<0, 1, 2, 3, 4, 5, 7, 12, 13, 15, 32, 33, 34, 40, 48, 49, 50, 60, 61, 62, 70, 71, 80>>

\* the word offsets bm1398_init stores to directly, in the order of the stores
Pt2Order ==
    <<0, 1, 2, 3, 4, 5, 7, 12, 13, 15, 32, 33, 34, 35, 40, 48, 49, 50, 60, 61, 62, 70, 71, 80>>

\* ctx->fpga_regs[word] = value; __sync_synchronize() where the code has it
store(word, value) == [value |-> value, word |-> word, op |-> "store"]

\* fpga_write_indirect(ctx, index, value)
store_indirect(index, value) == [value |-> value, op |-> "store_indirect", index |-> index]

\* fpga_write_indirect(ctx, index, (fpga_read_indirect(ctx, index) & keep) | set)
modify_indirect(index, keep, set) ==
    [op |-> "modify_indirect", index |-> index, keep |-> keep, set |-> set]

\* BootParamWrong for a driver that leaves 0x088 as it finds it
BootParamKept(reg_0x088) == FALSE

\* the test of bm1398_init on the value read from 0x088
BootParamWrong(reg_0x088) == reg_0x088 # <<\h00, \h00, \h9C, \h40>>

\* bm1398_init with a non-null ctx
bm1398_init ==
    << [op |-> "init_open"],
       [op |-> "boot_read"],
       store(32, <<\h80, \h80, \h80, \h00>>), usleep(10000),
       store(32, <<\h00, \h80, \h80, \h00>>), usleep(10000),
       [word |-> 32, op |-> "read"],
       [op |-> "boot_fix"],
       modify_indirect(FPGA_REG_CONTROL, <<\hFF, \hFF, \hFF, \hFF>>, <<\h40, \h00, \h00, \h00>>),
       [op |-> "read_indirect", index |-> FPGA_REG_CONTROL],
       store_indirect(FPGA_REG_TIMEOUT, Or32(<<\h00, \h01, \hFF, \hFF>>, <<\h80, \h00, \h00, \h00>>)),
       [op |-> "read_indirect", index |-> FPGA_REG_TIMEOUT],
       modify_indirect(FPGA_REG_WORK_CTRL_ENABLE, <<\hFF, \hFF, \h70, \h9F>>, <<\h00, \h00, \h80, \h60>>),
       [op |-> "read_indirect", index |-> FPGA_REG_WORK_CTRL_ENABLE],
       store_indirect(FPGA_REG_CHAIN_WORK_CONFIG, <<\h00, \h00, \h72, \h00>>),
       [op |-> "read_indirect", index |-> FPGA_REG_CHAIN_WORK_CONFIG],
       store_indirect(FPGA_REG_WORK_QUEUE_PARAM, <<\h00, \h00, \h36, \h48>>),
       [op |-> "read_indirect", index |-> FPGA_REG_WORK_QUEUE_PARAM] >>
    \o [k \in 1..Len(Pt2Order) |-> store(Pt2Order[k], Pt2Values[Pt2Order[k]])]
    \o << usleep(50000),
          [op |-> "detect_chains"],
          Return(0) >>


\* The frame builders called on their own, on an initialised context:
\* return bm1398_send_uart_cmd(ctx, chain, cmd, sizeof(cmd));
chain_inactive_body == << Checked(bm1398_chain_inactive), Return(0) >>

set_chip_address_body(addr) ==
    << [frame |-> SetAddressFrame(addr), op |-> "send", checked |-> TRUE], Return(0) >>

write_register_body(a) ==
    << Checked(bm1398_write_register(a.broadcast, a.chip_addr, a.reg_addr, a.value)),
       Return(0) >>

\* bm1398_read_register with a non-null value: the command, then the wait
\* for the response
read_register_body(a) ==
    << [frame |-> ReadRegisterFrame(a.broadcast, a.chip_addr, a.reg_addr),
        op |-> "send", checked |-> TRUE],
       [op |-> "read_response", timeout_ms |-> a.timeout_ms] >>

\* bm1398_crc5 called on its own: the loop over the bits, then return crc
crc5_body == << [op |-> "crc5_loop"] >>

\* bm1398_get_nonce_count called on its own
get_nonce_count_body == << [op |-> "get_nonce_count"] >>

bm1398_read_nonces ==
    << [op |-> "read_nonces_count"], [op |-> "read_nonces_loop"], [op |-> "return_read_count"] >>

bm1398_send_work ==
    << [word |-> REG_BUFFER_SPACE, op |-> "read"],
       [op |-> "fifo_wait"],
       [op |-> "fifo_wait_check"],
       [op |-> "push_work"],
       [word |-> 16, op |-> "read"],
       usleep(10),
       Return(0) >>

\* one pattern through the test: send_pattern_work sends works[idx], then
\* main matches a nonce that equals works[idx]'s
pattern_round ==
    << [op |-> "send_pattern_work"],
       [op |-> "match_nonce"],
       Return(0) >>

\* a caller that writes logical index a.index and then reads a.other
write_read_other(a) ==
    << Call("fpga_write_indirect", [value |-> a.value, index |-> a.index, mapped |-> a.mapped]),
       Call("fpga_read_indirect", [index |-> a.other, mapped |-> a.mapped]),
       Return(0) >>

\* the statements of the function a frame runs
Body(f) ==
    CASE f.fn = "bm1398_init_chain" -> bm1398_init_chain
      [] f.fn = "bm1398_hardware_reset_chain" -> bm1398_hardware_reset_chain
      [] f.fn = "bm1398_chain_reset_low" -> bm1398_chain_reset_low
      [] f.fn = "bm1398_chain_reset_high" -> bm1398_chain_reset_high
      [] f.fn = "bm1398_reset_chain_stage1" -> bm1398_reset_chain_stage1
      [] f.fn = "bm1398_configure_chain_stage2" -> bm1398_configure_chain_stage2
      [] f.fn = "bm1398_set_baud_rate" -> bm1398_set_baud_rate(f.arg)
      [] f.fn = "bm1398_set_frequency" -> bm1398_set_frequency(f.arg)
      [] f.fn = "bm1398_enumerate_chips" -> bm1398_enumerate_chips
      [] f.fn = "bm1398_read_nonce" -> bm1398_read_nonce
      [] f.fn = "bm1398_get_nonce_count" -> get_nonce_count_body
      [] f.fn = "bm1398_crc5" -> crc5_body
      [] f.fn = "i2c_wait_ready" -> i2c_wait_ready
      [] f.fn = "i2c_wait_data" -> i2c_wait_data
      [] f.fn = "fpga_write_indirect" -> fpga_write_indirect_body
      [] f.fn = "fpga_read_indirect" -> fpga_read_indirect_body
      [] f.fn = "write_then_read" -> write_then_read(f.arg)
      [] f.fn = "write_read_other" -> write_read_other(f.arg)
      [] f.fn = "bm1398_chain_inactive" -> chain_inactive_body
      [] f.fn = "bm1398_set_chip_address" -> set_chip_address_body(f.arg)
      [] f.fn = "bm1398_write_register" -> write_register_body(f.arg)
      [] f.fn = "bm1398_read_register" -> read_register_body(f.arg)
      [] f.fn = "bm1398_send_uart_cmd" -> send_uart_cmd_body
      [] f.fn = "bm1398_read_nonces" -> bm1398_read_nonces
      [] f.fn = "bm1398_send_work" -> bm1398_send_work
      [] f.fn = "bm1398_init" -> bm1398_init
      [] f.fn = "pattern_round" -> pattern_round

\* the locals of a function at its entry
Locals(fn) ==
    CASE fn = "bm1398_enumerate_chips" -> [i |-> 0, errors |-> 0, interval |-> 0]
      [] fn = "bm1398_read_nonces" -> [i |-> 0, count |-> 0, read_count |-> 0]
      [] fn = "bm1398_send_work" -> [timeout |-> WorkFifoBudget]
      [] fn = "bm1398_send_uart_cmd" -> [timeout |-> UartPollBudget]
      [] fn = "bm1398_crc5" -> [crc |-> 31, i |-> 0]
      [] fn = "i2c_wait_ready" -> [i |-> 0]
      [] fn = "i2c_wait_data" -> [i |-> 0]
      [] fn = "bm1398_init" -> [reg_0x088 |-> Zero32]
      [] OTHER -> <<>>

NewFrame(fn, chain, arg) == [chain |-> chain, fn |-> fn, arg |-> arg, pc |-> 1, loc |-> Locals(fn)]

Running == stack # <<>>

Top == Head(stack)

Stmt == Body(Top)[Top.pc]

At(op) == Running /\ Stmt.op = op

Advance(stk) == [stk EXCEPT ![1].pc = @ + 1]

\* the stack and the return value once the innermost call returns r: a caller
\* that checks the result and finds it negative returns -1 in its turn
RECURSIVE ReturnFrom(_, _)
ReturnFrom(stk, r) ==
    LET rest == Tail(stk)
    IN  IF rest = <<>> THEN [stack |-> <<>>, ret |-> r]
        ELSE IF Body(rest[1])[rest[1].pc].checked /\ r < 0 THEN ReturnFrom(rest, -1)
        ELSE [stack |-> Advance(rest), ret |-> r]

----------------------------------------------------------------------------
(* The hardware behind the window. *)

\* what a read of 0x018 returns: the number of entries in the return FIFO in
\* the low 15 bits, and whatever the hardware keeps in the bits above them
NonceCountRegister ==
    Or32(And32(regs[REG_NONCE_NUMBER_IN_FIFO], <<\hFF, \hFF, \h80, \h00>>),
         U32(Len(nonceFifo) \div 2))

\* what a read of 0x010 returns with fifo left to pop
PopWord(fifo) == IF fifo = <<>> THEN Zero32 ELSE Head(fifo)

AfterPop(fifo) == IF fifo = <<>> THEN fifo ELSE Tail(fifo)

\* bm1398_get_nonce_count without the 15-bit mask
get_nonce_count_unmasked == NonceCountRegister[3] * 256 + NonceCountRegister[4]

\* x >> (8 * n)
ShrBytes(x, n) == [k \in 1..4 |-> IF k - n >= 1 THEN x[k - n] ELSE 0]

\* the low 16 bits of x as an integer
Low16(x) == x[3] * 256 + x[4]

bm1398_get_nonce_count == Low16(And32(NonceCountRegister, <<\h00, \h00, \h7F, \hFF>>))

\* NonceRecord with the metadata fields taken in the opposite byte order
NonceRecordReversed(nonce_value, nonce_meta) ==
    [nonce |-> nonce_value,
     chain_id |-> nonce_meta[4], chip_id |-> nonce_meta[3],
     core_id |-> nonce_meta[2], work_id |-> nonce_meta[1]]

\* the record bm1398_read_nonce stores for the two words it read
NonceRecord(nonce_value, nonce_meta) ==
    [nonce |-> nonce_value,
     chain_id |-> Low16(And32(ShrBytes(nonce_meta, 3), <<0, 0, 0, \hFF>>)),
     chip_id |-> Low16(And32(ShrBytes(nonce_meta, 2), <<0, 0, 0, \hFF>>)),
     core_id |-> Low16(And32(ShrBytes(nonce_meta, 1), <<0, 0, 0, \hFF>>)),
     work_id |-> Low16(And32(nonce_meta, <<0, 0, 0, \hFF>>))]

----------------------------------------------------------------------------
(* The steps of the running call. *)

\* a public function is called
Enter(fn, chain, arg) ==
    /\ status = "idle"
    /\ stack' = <<NewFrame(fn, chain, arg)>>
    /\ status' = "running"
    /\ call' = [chain |-> chain, fn |-> fn, arg |-> arg]
    /\ entry' = [regs |-> regs, fifo |-> nonceFifo]
    /\ UNCHANGED <<regs, chips_per_chain, nonceFifo, ret, out, trace, timeouts,
                   sentAfterFail, checkedFail, hist, submitter, workFifo, ctx>>

\* the innermost call returns r
Leave(r) ==
    LET after == ReturnFrom(stack, r)
    IN  /\ stack' = after.stack
        /\ ret' = after.ret
        /\ status' = IF after.stack = <<>> THEN "returned" ELSE status

Continue ==
    /\ stack' = Advance(stack)
    /\ UNCHANGED <<status, ret>>

usleep_step ==
    /\ At("usleep")
    /\ trace' = Append(trace, EvSleep(Stmt.us))
    /\ Continue
    /\ UNCHANGED <<regs, chips_per_chain, nonceFifo, out, timeouts, sentAfterFail, checkedFail, hist, call, entry, submitter, workFifo,
                   ctx>>

\* some UART send of the top-level call has failed
failed == timeouts > 0

\* the polls at which bit 31 may clear for the next send
UartOutcomes == IF timeouts < MaxTimeouts THEN UartClearPolls ELSE {0}

\* the window and the flags after frame goes to the transport
Transmit(frame, clearsAt) ==
    LET sent == bm1398_send_uart_cmd(regs, Top.chain, frame, clearsAt)
    IN  /\ regs' = sent.regs
        /\ timeouts' = IF sent.ret < 0 THEN timeouts + 1 ELSE timeouts
        /\ sentAfterFail' = (sentAfterFail \/ failed)

\* bm1398_write_register, bm1398_chain_inactive
send_step ==
    /\ At("send")
    /\ \E clearsAt \in UartOutcomes :
         /\ Transmit(Stmt.frame, clearsAt)
         /\ trace' = Append(trace, EvUart(Top.chain, Stmt.frame))
         /\ IF Stmt.checked /\ bm1398_send_uart_cmd(regs, Top.chain, Stmt.frame, clearsAt).ret < 0
            THEN Leave(-1) /\ checkedFail' = TRUE
            ELSE Continue /\ UNCHANGED checkedFail
    /\ UNCHANGED <<chips_per_chain, nonceFifo, out, hist, call, entry, submitter, workFifo, ctx>>

\* the argument of a call statement: stage 2 passes ctx->chips_per_chain[chain]
ArgValue(stmt, chain) ==
    IF stmt.fn = "bm1398_enumerate_chips" THEN chips_per_chain[chain] ELSE stmt.arg

call_step ==
    /\ At("call")
    /\ stack' = <<NewFrame(Stmt.fn, Top.chain, ArgValue(Stmt, Top.chain))>> \o stack
    /\ UNCHANGED <<regs, chips_per_chain, nonceFifo, status, ret, out, trace, timeouts,
                   sentAfterFail, checkedFail, hist, call, entry, submitter, workFifo, ctx>>

ReturnValue ==
    CASE Stmt.op = "return" -> Stmt.val
      [] Stmt.op = "return_errors" -> IF Top.loc.errors > 0 THEN -1 ELSE 0
      [] Stmt.op = "return_read_count" -> Top.loc.read_count

return_step ==
    /\ Running
    /\ Stmt.op \in {"return", "return_errors", "return_read_count"}
    /\ Leave(ReturnValue)
    /\ UNCHANGED <<regs, chips_per_chain, nonceFifo, out, trace, timeouts, sentAfterFail, checkedFail, hist, call, entry, submitter, workFifo,
                   ctx>>

\* ctx after bm1398_init returned 0
ContextReady == [fpga_regs |-> "mapped", initialized |-> TRUE]

\* ctx after memset(ctx, 0, sizeof(*ctx))
ContextZeroed == [fpga_regs |-> "NULL", initialized |-> FALSE]

\* ctx after mmap failed: ctx->fpga_regs holds MAP_FAILED
ContextMapFailed == [fpga_regs |-> "MAP_FAILED", initialized |-> FALSE]

\* bm1398_init up to ctx->initialized = true: memset(ctx), open, mmap; the
\* call returns -1 when the device cannot be opened or mapped
init_open_step ==
    /\ At("init_open")
    /\ chips_per_chain' = [c \in 0..(MAX_CHAINS - 1) |-> 0]
    /\ \E after \in {ContextZeroed, ContextMapFailed, ContextReady} :
         /\ ctx' = after
         /\ IF after.initialized
            THEN /\ hist' = {"initialized"}
                 /\ Continue
            ELSE /\ hist' = {}
                 /\ Leave(-1)
    /\ UNCHANGED <<regs, nonceFifo, out, trace, timeouts, sentAfterFail, checkedFail,
                   call, entry, submitter, workFifo>>

\* reg_0x080 = regs[0x080 / 4]; reg_0x088 = regs[0x088 / 4]
boot_read_step ==
    /\ At("boot_read")
    /\ trace' = trace \o <<EvRead(32), EvRead(34)>>
    /\ stack' = Advance([stack EXCEPT ![1].loc.reg_0x088 = regs[34]])
    /\ UNCHANGED <<regs, chips_per_chain, nonceFifo, status, ret, out, timeouts,
                   sentAfterFail, checkedFail, hist, call, entry, submitter, workFifo, ctx>>

store_step ==
    /\ At("store")
    /\ regs' = [regs EXCEPT ![Stmt.word] = Stmt.value]
    /\ trace' = Append(trace, EvWrite(Stmt.word, Stmt.value))
    /\ Continue
    /\ UNCHANGED <<chips_per_chain, nonceFifo, out, timeouts, sentAfterFail, checkedFail,
                   hist, call, entry, submitter, workFifo, ctx>>

\* if (reg_0x088 != 0x00009C40) { regs[0x088 / 4] = 0x00009C40; usleep(100000); }
boot_fix_step ==
    /\ At("boot_fix")
    /\ IF BootParamWrong(Top.loc.reg_0x088)
       THEN /\ regs' = [regs EXCEPT ![34] = <<\h00, \h00, \h9C, \h40>>]
            /\ trace' = trace \o <<EvWrite(34, <<\h00, \h00, \h9C, \h40>>), EvSleep(100000)>>
       ELSE UNCHANGED <<regs, trace>>
    /\ Continue
    /\ UNCHANGED <<chips_per_chain, nonceFifo, out, timeouts, sentAfterFail, checkedFail,
                   hist, call, entry, submitter, workFifo, ctx>>

store_indirect_step ==
    /\ At("store_indirect")
    /\ regs' = fpga_write_indirect(regs, Stmt.index, Stmt.value)
    /\ workFifo' = WorkFifoAfter(workFifo, Stmt.index, Stmt.value)
    /\ trace' = trace \o IndirectWriteEvents(Stmt.index, Stmt.value)
    /\ Continue
    /\ UNCHANGED <<chips_per_chain, nonceFifo, out, timeouts, sentAfterFail, checkedFail,
                   hist, call, entry, submitter, ctx>>

modify_indirect_step ==
    /\ At("modify_indirect")
    /\ LET value == Or32(And32(fpga_read_indirect(regs, Stmt.index), Stmt.keep), Stmt.set)
       IN  /\ regs' = fpga_write_indirect(regs, Stmt.index, value)
           /\ workFifo' = WorkFifoAfter(workFifo, Stmt.index, value)
           /\ trace' = trace \o IndirectReadEvents(Stmt.index)
                             \o IndirectWriteEvents(Stmt.index, value)
    /\ Continue
    /\ UNCHANGED <<chips_per_chain, nonceFifo, out, timeouts, sentAfterFail, checkedFail,
                   hist, call, entry, submitter, ctx>>

\* what the hardware may return for a read of 0x008: the chains plugged in
PlugReads == {<<\h00, \h00, \h00, \h01>>, <<\h00, \h00, \h00, \h03>>}

\* detected = bm1398_detect_chains(ctx) and the loop over the chains
detect_chains_step ==
    /\ At("detect_chains")
    /\ trace' = Append(trace, EvRead(REG_HASH_ON_PLUG))
    /\ \E detected \in PlugReads :
         chips_per_chain' = [c \in 0..(MAX_CHAINS - 1) |->
             IF BitSet(detected, c) THEN CHIPS_PER_CHAIN_S19PRO ELSE chips_per_chain[c]]
    /\ Continue
    /\ UNCHANGED <<regs, nonceFifo, out, timeouts, sentAfterFail, checkedFail, hist, call,
                   entry, submitter, workFifo, ctx>>

ResetLineIndex == 13

\* the value bm1398_chain_reset_low / _high writes back
ResetLineValue(val, chain, assert) ==
    IF assert THEN Or32(val, Bit32(chain)) ELSE And32(val, Not32(Bit32(chain)))

\* bm1398_chain_reset_low, bm1398_chain_reset_high
reset_line_step ==
    /\ At("reset_line")
    /\ IF Top.chain < 0 \/ Top.chain >= MAX_CHAINS
       THEN UNCHANGED <<regs, trace>>
       ELSE LET val == ResetLineValue(fpga_read_indirect(regs, ResetLineIndex),
                                      Top.chain, Stmt.assert)
            IN  /\ regs' = fpga_write_indirect(regs, ResetLineIndex, val)
                /\ trace' = trace \o IndirectReadEvents(ResetLineIndex)
                                  \o IndirectWriteEvents(ResetLineIndex, val)
    /\ Continue
    /\ UNCHANGED <<chips_per_chain, nonceFifo, out, timeouts, sentAfterFail, checkedFail, hist, call, entry, submitter, workFifo,
                   ctx>>

AddressSpace == 256

\* uint8_t addr = i * interval;
EnumAddressSkipsZero(i, interval) == ((i + 1) * interval) % 256

EnumAddress(i, interval) == (i * interval) % 256

\* int interval = 256 / num_chips; if (interval < 1) interval = 1;
\* dividing by zero is undefined: the process is killed (SIGFPE) or the
\* division yields some value
enum_interval_step ==
    /\ At("enum_interval")
    /\ \/ /\ Top.arg > 0
          /\ stack' = Advance([stack EXCEPT ![1].loc.interval =
                                   IF AddressSpace \div Top.arg < 1 THEN 1
                                   ELSE AddressSpace \div Top.arg])
          /\ UNCHANGED status
       \/ /\ Top.arg = 0
          /\ stack' = Advance([stack EXCEPT ![1].loc.interval = 1])
          /\ UNCHANGED status
       \/ /\ Top.arg = 0
          /\ stack' = <<>>
          /\ status' = "killed"
    /\ UNCHANGED <<regs, chips_per_chain, nonceFifo, ret, out, trace, timeouts,
                   sentAfterFail, checkedFail, hist, call, entry, submitter, workFifo, ctx>>

\* one iteration of the for loop of bm1398_enumerate_chips, or its exit
enum_loop_step ==
    /\ At("enum_loop")
    /\ IF Top.loc.i < Top.arg
       THEN \E clearsAt \in UartOutcomes :
              LET addr == EnumAddress(Top.loc.i, Top.loc.interval)
                  frame == SetAddressFrame(addr)
                  sent == bm1398_send_uart_cmd(regs, Top.chain, frame, clearsAt)
              IN  /\ Transmit(frame, clearsAt)
                  /\ trace' = trace \o <<EvUart(Top.chain, frame), EvSleep(10000)>>
                  /\ stack' = [stack EXCEPT ![1].loc.i = @ + 1,
                                            ![1].loc.errors =
                                                IF sent.ret < 0 THEN @ + 1 ELSE @]
       ELSE /\ stack' = Advance(stack)
            /\ UNCHANGED <<regs, trace, timeouts, sentAfterFail>>
    /\ UNCHANGED <<chips_per_chain, nonceFifo, status, ret, out, checkedFail, hist, call, entry, submitter, workFifo,
                   ctx>>

\* bm1398_read_nonce: the FIFO after the two reads of 0x010
ReadNonceFifo(fifo) == AfterPop(AfterPop(fifo))

\* bm1398_read_nonce: the record decoded from the two reads of 0x010
ReadNonceRecord(fifo) == NonceRecord(PopWord(fifo), PopWord(AfterPop(fifo)))

ReadNonceEvents == <<EvRead(REG_RETURN_NONCE), EvRead(REG_RETURN_NONCE)>>

read_nonce_step ==
    /\ At("read_nonce")
    /\ out' = Append(out, ReadNonceRecord(nonceFifo))
    /\ nonceFifo' = ReadNonceFifo(nonceFifo)
    /\ trace' = trace \o ReadNonceEvents
    /\ Continue
    /\ UNCHANGED <<regs, chips_per_chain, timeouts, sentAfterFail, checkedFail, hist, call, entry, submitter, workFifo,
                   ctx>>

\* bm1398_get_nonce_count: one read of 0x018, returned masked
\* what the hardware may return for a read of the I2C control word: busy,
\* ready with a data byte (bits 31..30 = 2), ready without one (bits 31..30 = 3)
I2cReads == {Zero32, <<\h40, \h00, \h00, \h00>>, <<\h80, \h00, \h00, \h5A>>,
             <<\hC0, \h00, \h00, \h00>>}

\* one pass of the loop of i2c_wait_ready (Stmt.data false) or i2c_wait_data
\* (Stmt.data true): the test of i, the read, the return or usleep(5000)
i2c_wait_step ==
    /\ At("i2c_wait")
    /\ IF Top.loc.i < I2C_TIMEOUT_MS \div 5
       THEN \E val \in I2cReads :
              LET found == IF Stmt.data THEN val[1] \div 64 = 2 ELSE val[1] >= 128
              IN  IF found
                  THEN /\ trace' = Append(trace, EvRead(REG_I2C_CTRL))
                       /\ out' = IF Stmt.data THEN Append(out, val[4]) ELSE out
                       /\ Leave(0)
                  ELSE /\ trace' = trace \o <<EvRead(REG_I2C_CTRL), EvSleep(5000)>>
                       /\ stack' = [stack EXCEPT ![1].loc.i = @ + 1]
                       /\ UNCHANGED <<status, ret, out>>
       ELSE /\ Continue
            /\ UNCHANGED <<trace, out>>
    /\ UNCHANGED <<regs, chips_per_chain, nonceFifo, timeouts, sentAfterFail, checkedFail, hist, call, entry, submitter, workFifo,
                   ctx>>

\* fpga_write_indirect(ctx, logical_index, value); a.mapped is false when ctx
\* or ctx->fpga_regs is null.  The function returns nothing.
write_indirect_step ==
    /\ At("write_indirect")
    /\ LET a == Top.arg
       IN  IF a.mapped
           THEN /\ regs' = fpga_write_indirect(regs, a.index, a.value)
                /\ workFifo' = WorkFifoAfter(workFifo, a.index, a.value)
                /\ trace' = trace \o IndirectWriteEvents(a.index, a.value)
           ELSE UNCHANGED <<regs, trace, workFifo>>
    /\ Leave(ret)
    /\ UNCHANGED <<chips_per_chain, nonceFifo, out, timeouts, sentAfterFail, checkedFail, hist, call, entry, submitter,
                   ctx>>

\* fpga_read_indirect(ctx, logical_index); the uint32_t it returns is
\* appended to out
load_indirect_step ==
    /\ At("load_indirect")
    /\ LET a == Top.arg
       IN  IF a.mapped
           THEN /\ out' = Append(out, fpga_read_indirect(regs, a.index))
                /\ trace' = trace \o IndirectReadEvents(a.index)
           ELSE /\ out' = Append(out, Zero32)
                /\ UNCHANGED trace
    /\ Leave(ret)
    /\ UNCHANGED <<regs, chips_per_chain, nonceFifo, timeouts, sentAfterFail, checkedFail, hist, call, entry, submitter, workFifo,
                   ctx>>

\* int available = regs[REG_NONCE_NUMBER_IN_FIFO]; available > 0
ResponseAvailable ==
    NonceCountRegister[1] < 128 /\ NonceCountRegister # Zero32

\* what the wait loop of bm1398_read_register does when no response comes
\* within timeout_ms: a read of 0x018 and usleep(100) per pass
ResponseTimeoutEvents(timeout_ms) ==
    [k \in 1..(2 * ((timeout_ms * 1000) \div 100)) |->
        IF k % 2 = 1 THEN EvRead(REG_NONCE_NUMBER_IN_FIFO) ELSE EvSleep(100)]

\* the wait loop of bm1398_read_register, the return FIFO being left alone
\* by the hardware during the wait
read_response_step ==
    /\ At("read_response")
    /\ IF Stmt.timeout_ms > 0 /\ ResponseAvailable
       THEN /\ trace' = trace \o <<EvRead(REG_NONCE_NUMBER_IN_FIFO), EvRead(REG_RETURN_NONCE)>>
            /\ nonceFifo' = AfterPop(nonceFifo)
            /\ out' = <<[value |-> PopWord(nonceFifo)]>>
            /\ Leave(0)
       ELSE /\ trace' = trace \o ResponseTimeoutEvents(Stmt.timeout_ms)
            /\ UNCHANGED <<nonceFifo, out>>
            /\ Leave(-1)
    /\ UNCHANGED <<regs, chips_per_chain, timeouts, sentAfterFail, checkedFail, hist, call, entry, submitter, workFifo,
                   ctx>>

\* bm1398_crc5(data, bits): one pass of the loop, or the return once i = bits
crc5_loop_step ==
    /\ At("crc5_loop")
    /\ LET data == Top.arg.data
           i == Top.loc.i
           bit == BitAnd(data[(i \div 8) + 1] \div Pow2(7 - (i % 8)), 1)
       IN  IF i < Top.arg.bits
           THEN /\ stack' = [stack EXCEPT ![1].loc = [i |-> i + 1, crc |-> Crc5Step(Top.loc.crc, bit)]]
                /\ UNCHANGED <<status, ret>>
           ELSE Leave(Top.loc.crc)
    /\ UNCHANGED <<regs, chips_per_chain, nonceFifo, out, trace, timeouts, sentAfterFail, checkedFail, hist, call, entry, submitter, workFifo,
                   ctx>>

get_nonce_count_step ==
    /\ At("get_nonce_count")
    /\ trace' = Append(trace, EvRead(REG_NONCE_NUMBER_IN_FIFO))
    /\ Leave(bm1398_get_nonce_count)
    /\ UNCHANGED <<regs, chips_per_chain, nonceFifo, out, timeouts, sentAfterFail, checkedFail, hist, call, entry, submitter, workFifo,
                   ctx>>

Min(a, b) == IF a < b THEN a ELSE b

\* bm1398_read_nonces: available = get_nonce_count; count = min(available, max)
read_nonces_count_step ==
    /\ At("read_nonces_count")
    /\ trace' = Append(trace, EvRead(REG_NONCE_NUMBER_IN_FIFO))
    /\ IF bm1398_get_nonce_count <= 0
       THEN Leave(0)
       ELSE /\ stack' = Advance([stack EXCEPT ![1].loc.count =
                                    Min(bm1398_get_nonce_count, Top.arg)])
            /\ UNCHANGED <<status, ret>>
    /\ UNCHANGED <<regs, chips_per_chain, nonceFifo, out, timeouts, sentAfterFail, checkedFail, hist, call, entry, submitter, workFifo,
                   ctx>>

read_nonces_loop_step ==
    /\ At("read_nonces_loop")
    /\ IF Top.loc.i < Top.loc.count
       THEN /\ out' = Append(out, ReadNonceRecord(nonceFifo))
            /\ nonceFifo' = ReadNonceFifo(nonceFifo)
            /\ trace' = trace \o ReadNonceEvents
            /\ stack' = [stack EXCEPT ![1].loc.i = @ + 1, ![1].loc.read_count = @ + 1]
       ELSE /\ stack' = Advance(stack)
            /\ UNCHANGED <<out, nonceFifo, trace>>
    /\ UNCHANGED <<regs, chips_per_chain, status, ret, timeouts, sentAfterFail, checkedFail, hist, call, entry, submitter, workFifo,
                   ctx>>

DiscardNonces == 256

\* stage 2 clears the return FIFO after the baud change
drain_step ==
    /\ At("drain")
    /\ trace' = Append(trace, EvRead(REG_NONCE_NUMBER_IN_FIFO))
    /\ IF bm1398_get_nonce_count > 0
       THEN stack' = <<NewFrame("bm1398_read_nonces", Top.chain,
                                Min(bm1398_get_nonce_count, DiscardNonces))>> \o stack
       ELSE stack' = Advance(stack)
    /\ UNCHANGED <<regs, chips_per_chain, nonceFifo, status, ret, out, timeouts,
                   sentAfterFail, checkedFail, hist, call, entry, submitter, workFifo, ctx>>

read_indirect_step ==
    /\ At("read_indirect")
    /\ trace' = trace \o IndirectReadEvents(Stmt.index)
    /\ Continue
    /\ UNCHANGED <<regs, chips_per_chain, nonceFifo, out, timeouts, sentAfterFail, checkedFail, hist, call, entry, submitter, workFifo,
                   ctx>>

\* a read of a window word whose value only goes to a debug message
read_step ==
    /\ At("read")
    /\ trace' = Append(trace, EvRead(Stmt.word))
    /\ Continue
    /\ UNCHANGED <<regs, chips_per_chain, nonceFifo, out, timeouts, sentAfterFail,
                   checkedFail, hist, call, entry, submitter, workFifo, ctx>>

\* bm1398_check_work_fifo_ready testing the raw value instead of the chain's bit
check_work_fifo_ready_any_bit(buffer_status, chain) ==
    IF chain < 0 \/ chain >= MAX_CHAINS THEN -1
    ELSE IF buffer_status # Zero32 THEN 1 ELSE 0

\* bm1398_check_work_fifo_ready when the read of 0x00C returns buffer_status
bm1398_check_work_fifo_ready(buffer_status, chain) ==
    IF chain < 0 \/ chain >= MAX_CHAINS THEN -1
    ELSE IF And32(buffer_status, Bit32(chain)) # Zero32 THEN 1 ELSE 0

\* what the hardware may return for a read of 0x00C
BufferSpaceReads == {Zero32, <<\h00, \h00, \h00, \h02>>, <<\h00, \h00, \h00, \h07>>}

\* one evaluation of the condition of the wait loop of bm1398_send_work, and
\* the loop body when it holds.  The polls and the 1 ms sleeps between them
\* are not listed in trace; hist keeps whether a poll found the chain's bit
\* set while timeout > 0 or when timeout had reached 0.
fifo_wait_step ==
    /\ At("fifo_wait")
    /\ \E buffer_status \in BufferSpaceReads :
         LET ready == bm1398_check_work_fifo_ready(buffer_status, Top.chain)
             budget == Top.loc.timeout
         IN  IF ready < 1 /\ budget > 0
             THEN /\ stack' = [stack EXCEPT ![1].loc.timeout = @ - 1]
                  /\ UNCHANGED hist
             ELSE /\ stack' = Advance(stack)
                  /\ hist' = IF ~BitSet(buffer_status, Top.chain) THEN hist
                             ELSE IF budget > 0 THEN hist \cup {"ready_in_budget"}
                             ELSE hist \cup {"ready_at_expiry"}
    /\ UNCHANGED <<regs, chips_per_chain, nonceFifo, status, ret, out, trace, timeouts,
                   sentAfterFail, checkedFail, call, entry, submitter, workFifo, ctx>>

\* if (timeout == 0) return -1; timeout is not used for anything but a
\* message afterwards
fifo_wait_check_step ==
    /\ At("fifo_wait_check")
    /\ IF Top.loc.timeout = 0
       THEN Leave(-1)
       ELSE /\ stack' = Advance([stack EXCEPT ![1].loc = <<>>])
            /\ UNCHANGED <<status, ret>>
    /\ UNCHANGED <<regs, chips_per_chain, nonceFifo, out, trace, timeouts, sentAfterFail,
                   checkedFail, hist, call, entry, submitter, workFifo, ctx>>

\* the 148 bytes of work_packet_t as bm1398_send_work fills them
WorkPacketBytes(chain, work) ==
    <<1, BitOr(chain % 256, 128), 0, 0>> \o StoreLE(Shl3(work.work_id))
        \o work.work_data
        \o work.midstates[1] \o work.midstates[2] \o work.midstates[3] \o work.midstates[4]

\* words[i] without the byte swap
WorkWordUnswapped(bytes, i) == LoadLE(SubSeq(bytes, 4 * i + 1, 4 * i + 4))

\* words[i] after the byte swap, i = 0..36
WorkWord(bytes, i) == __builtin_bswap32(LoadLE(SubSeq(bytes, 4 * i + 1, 4 * i + 4)))

\* the logical index words[i] is written to
WorkWordIndexSplit(i) ==
    IF i = 0 THEN FPGA_REG_TW_WRITE_CMD_FIRST ELSE FPGA_REG_TW_WRITE_CMD_REST

WorkWordIndex(i) == FPGA_REG_TW_WRITE_CMD_FIRST

RECURSIVE PushWords(_, _, _)
\* the window after words[i .. num_words - 1] have been written
PushWords(r, bytes, i) ==
    IF i >= Len(bytes) \div 4 THEN r
    ELSE PushWords(fpga_write_indirect(r, WorkWordIndex(i), WorkWord(bytes, i)), bytes, i + 1)

RECURSIVE PushFifo(_, _, _)
\* the work FIFO after words[i .. num_words - 1] have been written
PushFifo(fifo, bytes, i) ==
    IF i >= Len(bytes) \div 4 THEN fifo
    ELSE PushFifo(WorkFifoAfter(fifo, WorkWordIndex(i), WorkWord(bytes, i)), bytes, i + 1)

RECURSIVE PushEvents(_, _)
PushEvents(bytes, i) ==
    IF i >= Len(bytes) \div 4 THEN <<>>
    ELSE IndirectWriteEvents(WorkWordIndex(i), WorkWord(bytes, i)) \o PushEvents(bytes, i + 1)

\* the packet is built, swapped and written to the work FIFO
push_work_step ==
    /\ At("push_work")
    /\ LET bytes == WorkPacketBytes(Top.chain, Top.arg)
       IN  /\ regs' = PushWords(regs, bytes, 0)
           /\ workFifo' = PushFifo(workFifo, bytes, 0)
           /\ trace' = trace \o PushEvents(bytes, 0)
    /\ Continue
    /\ UNCHANGED <<chips_per_chain, nonceFifo, out, timeouts, sentAfterFail, checkedFail,
                   hist, call, entry, submitter, ctx>>

----------------------------------------------------------------------------
(* The context after bm1398_init. *)

\* the window after bm1398_init when the words it does not store hold fill
BootWindow(fill) ==
    [w \in 0..(WindowWords - 1) |-> IF w \in DOMAIN Pt2Values THEN Pt2Values[w] ELSE fill]

Chains == 0..(MAX_CHAINS - 1)

\* ctx->chips_per_chain after bm1398_init found the chains in detected
DetectedChips(detected) ==
    [c \in Chains |-> IF c \in detected THEN CHIPS_PER_CHAIN_S19PRO ELSE 0]

\* entry k of the return FIFO at the start: a nonce word and a metadata word
StaleEntry(k) == << <<\hDE, \hAD, \hBE, k>>, <<k, 12 + k, 30 + k, \h38 + k>> >>

RECURSIVE StaleFifo(_)
StaleFifo(n) == IF n = 0 THEN <<>> ELSE StaleFifo(n - 1) \o StaleEntry(n - 1)

\* the second caller before it calls bm1398_send_work
SubmitterIdle ==
    [ret |-> 0, chain |-> 0, i |-> 0, timeout |-> 0, pc |-> "idle",
     work |-> <<>>, pushed |-> <<>>, accessed |-> {}, popped |-> <<>>]

\* the caller before any call, with a context still to be set
InitCaller ==
    /\ stack = <<>>
    /\ status = "idle"
    /\ ret = 0
    /\ out = <<>>
    /\ trace = <<>>
    /\ timeouts = 0
    /\ sentAfterFail = FALSE
    /\ checkedFail = FALSE
    /\ hist = {}
    /\ call = [chain |-> 0, fn |-> "", arg |-> 0]
    /\ submitter = SubmitterIdle
    /\ workFifo = <<>>

\* the caller holds a context that bm1398_init has set up
InitCommon == InitCaller /\ ctx = ContextReady

----------------------------------------------------------------------------
(* Bring-up of one chain: bm1398_init_chain(chain). *)

InitBringup ==
    /\ InitCommon
    /\ regs = BootWindow(Zero32)
    /\ chips_per_chain = DetectedChips({0, 1})
    /\ \E n \in {0, MaxStale} : nonceFifo = StaleFifo(n)
    /\ entry = [regs |-> regs, fifo |-> nonceFifo]

CallInitChain == \E chain \in Chains : Enter("bm1398_init_chain", chain, 0)

NextBringup ==
    \/ CallInitChain
    \/ usleep_step
    \/ send_step
    \/ call_step
    \/ return_step
    \/ reset_line_step
    \/ enum_interval_step
    \/ enum_loop_step
    \/ drain_step
    \/ read_nonces_count_step
    \/ read_nonces_loop_step
    \/ read_indirect_step

SpecBringup == InitBringup /\ [][NextBringup]_vars

----------------------------------------------------------------------------
(* Reading the trace of the top-level call. *)

\* the positions of the trace that satisfy P, in increasing order
Positions(P(_)) == SelectSeq([k \in 1..Len(trace) |-> k], P)

Range(seq) == {seq[n] : n \in 1..Len(seq)}

IsUart(k) == trace[k][1] = "uart"

IsSetAddress(k) == IsUart(k) /\ trace[k][3][1] = CMD_PREAMBLE_SET_ADDRESS

IsChainInactive(k) == IsUart(k) /\ trace[k][3][1] = CMD_PREAMBLE_CHAIN_INACTIVE

\* position k holds a broadcast write to ASIC register reg
IsBroadcastTo(k, reg) ==
    /\ IsUart(k)
    /\ trace[k][3][1] = CMD_PREAMBLE_WRITE_BCAST
    /\ trace[k][3][4] = reg

\* position k holds the broadcast write reg <- value
IsBroadcastWrite(k, reg, value) ==
    /\ IsBroadcastTo(k, reg)
    /\ <<trace[k][3][5], trace[k][3][6], trace[k][3][7], trace[k][3][8]>> = value

IsWriteOf(k, word) == trace[k][1] = "write" /\ trace[k][2] = word

IsReadOf(k, word) == trace[k][1] = "read" /\ trace[k][2] = word

\* every position of A lies before every position of B
Before(A, B) == \A a \in A : \A b \in B : a < b

Returned(fn) == call.fn = fn /\ status = "returned"

----------------------------------------------------------------------------
(* Claims about bm1398_init_chain. *)

InitChainSucceeded == Returned("bm1398_init_chain") /\ ret = 0

\* C1: in every run of bm1398_init_chain that returns success the effects are
\* ordered: the four reset-line writes precede the first UART command; the
\* first six UART commands are the soft-reset writes to 0x18, 0x34, 0x18,
\* 0x18, 0x18, 0x34 and precede the one diode-mux write (0x54); a
\* chain-inactive and the low-baud CLK_CTRL write precede every set-address;
\* every set-address precedes 0x3C <- 0x8000851F, which precedes
\* 0x3C <- 0x80000600; every write to PLL0 (0x08) precedes the high-baud
\* CLK_CTRL write; the reads that drain the nonce FIFO follow the high-baud
\* write; the UART commands after the drain are the broadcasts to 0xA8, 0x18,
\* 0x3C, 0x44, 0x3C and, last of all, 0x3C <- 0x80008D15.
C1_BringupOrder ==
    InitChainSucceeded =>
        LET uarts == Positions(IsUart)
            toggles == Range(Positions(LAMBDA k : IsWriteOf(k, MapWord(ResetLineIndex))))
            diode == Range(Positions(LAMBDA k : IsBroadcastTo(k, \h54)))
            inactive == Range(Positions(IsChainInactive))
            lowbaud == Range(Positions(LAMBDA k :
                           IsBroadcastWrite(k, \h18, <<\hF0, \h00, \h04, \h1A>>)))
            setaddr == Range(Positions(IsSetAddress))
            cc1 == Range(Positions(LAMBDA k :
                       IsBroadcastWrite(k, \h3C, <<\h80, \h00, \h85, \h1F>>)))
            cc2 == Range(Positions(LAMBDA k :
                       IsBroadcastWrite(k, \h3C, <<\h80, \h00, \h06, \h00>>)))
            pll0 == Range(Positions(LAMBDA k : IsBroadcastTo(k, \h08)))
            highbaud == Range(Positions(LAMBDA k :
                            IsBroadcastWrite(k, \h18, <<\hF0, \h01, \h00, \h03>>)))
            drain == Positions(LAMBDA k : IsReadOf(k, REG_NONCE_NUMBER_IN_FIFO)
                                          \/ IsReadOf(k, REG_RETURN_NONCE))
            after == SelectSeq(uarts, LAMBDA k : k > drain[Len(drain)])
            softRegs == <<\h18, \h34, \h18, \h18, \h18, \h34>>
            coreRegs == <<\hA8, \h18, \h3C, \h44, \h3C>>
        IN  /\ Cardinality(toggles) = 4
            /\ Before(toggles, Range(uarts))
            /\ Len(uarts) > 6
            /\ \A n \in 1..6 : IsBroadcastTo(uarts[n], softRegs[n])
            /\ Cardinality(diode) = 1
            /\ Before({uarts[n] : n \in 1..6}, diode)
            /\ inactive # {} /\ lowbaud # {}
            /\ \A s \in setaddr : (\E c \in inactive : c < s) /\ (\E l \in lowbaud : l < s)
            /\ cc1 # {} /\ cc2 # {}
            /\ Before(setaddr, cc1)
            /\ Before(cc1, cc2)
            /\ pll0 # {} /\ highbaud # {}
            /\ Before(pll0, highbaud)
            /\ drain # <<>>
            /\ Before(highbaud, Range(drain))
            /\ Len(after) = 6
            /\ \A n \in 1..5 : IsBroadcastTo(after[n], coreRegs[n])
            /\ IsBroadcastWrite(uarts[Len(uarts)], \h3C, <<\h80, \h00, \h8D, \h15>>)

\* a bring-up of a chain of 114 chips that succeeded and drained stale nonces
C1_Witness ==
    /\ InitChainSucceeded
    /\ Len(Positions(IsSetAddress)) = CHIPS_PER_CHAIN_S19PRO
    /\ Len(Positions(LAMBDA k : IsReadOf(k, REG_RETURN_NONCE))) = 2 * MaxStale

\* C2: if a UART command sent during bm1398_init_chain fails, no later
\* command is sent and bm1398_init_chain returns an error.
C2_FailureAborts ==
    call.fn = "bm1398_init_chain" =>
        /\ ~sentAfterFail
        /\ (status = "returned" /\ failed) => ret < 0

----------------------------------------------------------------------------
(* The reset line: bm1398_chain_reset_low, bm1398_chain_reset_high and      *)
(* bm1398_hardware_reset_chain called on their own.                          *)

\* what the word behind logical index 13 may hold when the call is made
ResetWordAtEntry == {Zero32, <<\h00, \h00, \h00, \h05>>, <<\hFF, \hFF, \hFF, \hFA>>}

InitReset ==
    /\ InitCommon
    /\ \E v \in ResetWordAtEntry :
         regs = [BootWindow(Zero32) EXCEPT ![MapWord(ResetLineIndex)] = v]
    /\ chips_per_chain = DetectedChips(Chains)
    /\ nonceFifo = <<>>
    /\ entry = [regs |-> regs, fifo |-> nonceFifo]

CallChainResetLow == \E chain \in Chains : Enter("bm1398_chain_reset_low", chain, 0)

CallChainResetHigh == \E chain \in Chains : Enter("bm1398_chain_reset_high", chain, 0)

CallHardwareResetChain == \E chain \in Chains : Enter("bm1398_hardware_reset_chain", chain, 0)

NextReset ==
    \/ CallChainResetLow
    \/ CallChainResetHigh
    \/ CallHardwareResetChain
    \/ usleep_step
    \/ call_step
    \/ return_step
    \/ reset_line_step

SpecReset == InitReset /\ [][NextReset]_vars

\* C3: bm1398_hardware_reset_chain(chain) waits 700 ms, asserts the chain's
\* reset bit in the word at 0x034, waits 10 ms, releases it, waits 72 ms,
\* asserts, waits 10 ms, releases, waits 10 ms, writes no other word, and
\* leaves the reset bit clear.
C3_ResetSequence ==
    Returned("bm1398_hardware_reset_chain") =>
        LET word == REG_RESET_HASHBOARD_COMMAND
            asserted == EvWrite(word, Or32(entry.regs[word], Bit32(call.chain)))
            released == EvWrite(word, And32(entry.regs[word], Not32(Bit32(call.chain))))
        IN  /\ SelectSeq(trace, LAMBDA e : e[1] # "read") =
                   << EvSleep(700000), asserted, EvSleep(10000), released, EvSleep(72000),
                      asserted, EvSleep(10000), released, EvSleep(10000) >>
            /\ ~BitSet(regs[word], call.chain)

\* C4: bm1398_chain_reset_low(chain) sets and bm1398_chain_reset_high(chain)
\* clears bit chain of the word at byte offset 0x034, and nothing else of the
\* window changes.
C4_ResetLineBit ==
    /\ Returned("bm1398_chain_reset_low") =>
           regs = [entry.regs EXCEPT ![REG_RESET_HASHBOARD_COMMAND] = Or32(@, Bit32(call.chain))]
    /\ Returned("bm1398_chain_reset_high") =>
           regs = [entry.regs EXCEPT ![REG_RESET_HASHBOARD_COMMAND] =
                                    And32(@, Not32(Bit32(call.chain)))]

----------------------------------------------------------------------------
(* Enumeration: bm1398_enumerate_chips(chain, num_chips) called on its own. *)

\* the chip counts it is called with: none, a few, a full S19 Pro chain, and
\* the two counts around the size of the address space
EnumCounts == (0..MaxSmallChips) \cup {CHIPS_PER_CHAIN_S19PRO, AddressSpace, AddressSpace + 1}

InitEnum ==
    /\ InitCommon
    /\ regs = BootWindow(Zero32)
    /\ chips_per_chain = DetectedChips(Chains)
    /\ nonceFifo = <<>>
    /\ entry = [regs |-> regs, fifo |-> nonceFifo]

CallEnumerateChips ==
    \E chain \in Chains : \E num_chips \in EnumCounts :
        Enter("bm1398_enumerate_chips", chain, num_chips)

NextEnum ==
    \/ CallEnumerateChips
    \/ usleep_step
    \/ send_step
    \/ enum_interval_step
    \/ enum_loop_step
    \/ return_step

SpecEnum == InitEnum /\ [][NextEnum]_vars

\* the frames of the UART commands of the trace, in order
UartFrames == [n \in 1..Len(Positions(IsUart)) |-> trace[Positions(IsUart)[n]][3]]

\* the frames are one chain-inactive and then n set-address commands whose
\* address bytes are 0, step, 2 * step, ...
IsEnumeration(frames, n, step) ==
    /\ Len(frames) = n + 1
    /\ frames[1][1] = CMD_PREAMBLE_CHAIN_INACTIVE
    /\ \A k \in 1..n : /\ frames[k + 1][1] = CMD_PREAMBLE_SET_ADDRESS
                       /\ frames[k + 1][3] = (k - 1) * step

C6_ReturnsFailureCount ==
    (Returned("bm1398_enumerate_chips") /\ ~checkedFail) =>
        /\ ret = timeouts
        /\ Len(UartFrames) = call.arg + 1

----------------------------------------------------------------------------
(* Work submission: bm1398_send_work called on its own. *)

Ramp(n) == [k \in 1..n |-> k - 1]

\* the work the function is called with
WorkInputs ==
    { [work_id |-> U32(7), work_data |-> Ramp(12), midstates |-> [m \in 1..4 |-> Ramp(32)]],
      [work_id |-> <<\h20, \h00, \h00, \h01>>,
       work_data |-> [k \in 1..12 |-> 255 - k],
       midstates |-> [m \in 1..4 |-> [k \in 1..32 |-> (64 * m + k) % 256]]] }

InitWork ==
    /\ InitCommon
    /\ regs = BootWindow(Zero32)
    /\ chips_per_chain = DetectedChips(Chains)
    /\ nonceFifo = <<>>
    /\ entry = [regs |-> regs, fifo |-> nonceFifo]

CallSendWork ==
    \E chain \in Chains : \E work \in WorkInputs : Enter("bm1398_send_work", chain, work)

NextWork ==
    \/ CallSendWork
    \/ read_step
    \/ fifo_wait_step
    \/ fifo_wait_check_step
    \/ push_work_step
    \/ usleep_step
    \/ return_step

SpecWork == InitWork /\ [][NextWork]_vars

\* the values written to window words, in order
WriteEvents == SelectSeq(trace, LAMBDA e : e[1] = "write")

\* word n (from 1) of the packet for the call: bytes 4n-4 .. 4n-1, first
\* byte most significant
PacketWord(n) ==
    LET bytes == <<1, 128 + call.chain, 0, 0>> \o StoreLE(Shl3(call.arg.work_id))
                     \o call.arg.work_data
                     \o call.arg.midstates[1] \o call.arg.midstates[2]
                     \o call.arg.midstates[3] \o call.arg.midstates[4]
    IN  <<bytes[4 * n - 3], bytes[4 * n - 2], bytes[4 * n - 1], bytes[4 * n]>>

\* C7: a successful bm1398_send_work writes exactly 37 words, all to the word
\* at byte offset 0x040, in packet order, and no other word of the window;
\* the word logical index 17 resolves to is never written.
C7_PushesThroughIndex16 ==
    (Returned("bm1398_send_work") /\ ret = 0) =>
        /\ WriteEvents = [n \in 1..37 |-> EvWrite(WorkFifoWord, PacketWord(n))]
        /\ \A w \in DOMAIN regs : w # WorkFifoWord => regs[w] = entry.regs[w]
        /\ MapWord(FPGA_REG_TW_WRITE_CMD_FIRST) = WorkFifoWord
        /\ \A n \in 1..Len(WriteEvents) :
               WriteEvents[n][2] # MapWord(FPGA_REG_TW_WRITE_CMD_REST)

\* a packet has been pushed on chain 2
C7_Witness ==
    /\ Returned("bm1398_send_work") /\ ret = 0
    /\ call.chain = 2
    /\ Len(WriteEvents) = 37

Pushed == \E n \in 1..Len(trace) : IsWriteOf(n, WorkFifoWord)

\* C8: bm1398_send_work pushes the packet if and only if a poll of 0x00C made
\* while wait budget remained read bit chain set; otherwise it returns an
\* error and writes no word to the work FIFO.
C8_PushIffReady ==
    Returned("bm1398_send_work") =>
        /\ Pushed <=> "ready_in_budget" \in hist
        /\ Pushed => ret = 0
        /\ ~Pushed => ret = -1

\* the call gave up although the poll made when the budget had run out found
\* the chain's bit set
C8_Witness ==
    /\ Returned("bm1398_send_work")
    /\ ret = -1
    /\ "ready_at_expiry" \in hist
    /\ ~Pushed

IsScenarioWork ==
    /\ call.fn = "bm1398_send_work"
    /\ call.chain = 0
    /\ call.arg = [work_id |-> U32(7), work_data |-> Ramp(12),
                   midstates |-> [m \in 1..4 |-> Ramp(32)]]

\* C9 as stated: for chain 0, work_id 7, header 00..0B and midstates 00..1F
\* the first word pushed is 0x01800000 and the 5th is 0x00000038.
C9_AsStated ==
    (IsScenarioWork /\ status = "returned" /\ ret = 0) =>
        /\ WriteEvents[1][3] = <<\h01, \h80, \h00, \h00>>
        /\ WriteEvents[5][3] = <<\h00, \h00, \h00, \h38>>

\* C9: for chain 0, work_id 7, header 00..0B and midstates 00..1F the first
\* word pushed is 0x01800000 and the 2nd is 0x38000000.
C9_ScenarioWords ==
    (IsScenarioWork /\ status = "returned" /\ ret = 0) =>
        /\ WriteEvents[1][3] = <<\h01, \h80, \h00, \h00>>
        /\ WriteEvents[2][3] = <<\h38, \h00, \h00, \h00>>

C9_Witness == IsScenarioWork /\ status = "returned" /\ ret = 0 /\ Len(WriteEvents) = 37

----------------------------------------------------------------------------
(* Nonce collection: bm1398_read_nonce called on its own. *)

\* words the return FIFO may hold
FifoWords ==
    { <<\hDE, \hAD, \hBE, \hEF>>, <<\h04, \h0C, \h1E, \h38>>, Zero32,
      <<\hFF, \hFF, \hFF, \hFF>>, <<\h80, \h01, \h7F, \hFE>>, <<\h0F, \hF0, \h00, \h81>> }

\* the FIFO holds the entry (w0, w1) and MaxStale entries behind it
InitNonce ==
    /\ InitCommon
    /\ regs = BootWindow(Zero32)
    /\ chips_per_chain = DetectedChips(Chains)
    /\ \E w0 \in FifoWords : \E w1 \in FifoWords : nonceFifo = <<w0, w1>> \o StaleFifo(MaxStale)
    /\ entry = [regs |-> regs, fifo |-> nonceFifo]

CallReadNonce == Enter("bm1398_read_nonce", 0, 0)

NextNonce ==
    \/ CallReadNonce
    \/ read_nonce_step
    \/ return_step

SpecNonce == InitNonce /\ [][NextNonce]_vars

\* the word at byte offset 0x010
ReturnNonceWord == 4

\* bits hi..hi-7 of a word, as a number
Bits(x, hi) == x[4 - (hi \div 8)]

\* C10: bm1398_read_nonce reads offset 0x010 exactly twice and returns
\* nonce = the first word, chain = bits 31..24, chip = bits 23..16,
\* core = bits 15..8 and work_id = bits 7..0 of the second word;
\* (0xDEADBEEF, 0x040C1E38) gives chain 4, chip 12, core 30, work_id 56.
C10_ReadNonceDecodes ==
    Returned("bm1398_read_nonce") =>
        LET w0 == entry.fifo[1]
            w1 == entry.fifo[2]
        IN  /\ trace = <<EvRead(ReturnNonceWord), EvRead(ReturnNonceWord)>>
            /\ nonceFifo = SubSeq(entry.fifo, 3, Len(entry.fifo))
            /\ out = << [nonce |-> w0, chain_id |-> Bits(w1, 31), chip_id |-> Bits(w1, 23),
                         core_id |-> Bits(w1, 15), work_id |-> Bits(w1, 7)] >>
            /\ (w0 = <<\hDE, \hAD, \hBE, \hEF>> /\ w1 = <<\h04, \h0C, \h1E, \h38>>) =>
                   /\ out[1].chain_id = 4 /\ out[1].chip_id = 12
                   /\ out[1].core_id = 30 /\ out[1].work_id = 56

\* the entry (0xDEADBEEF, 0x040C1E38) has been read
C10_Witness ==
    /\ Returned("bm1398_read_nonce")
    /\ entry.fifo[1] = <<\hDE, \hAD, \hBE, \hEF>>
    /\ entry.fifo[2] = <<\h04, \h0C, \h1E, \h38>>
    /\ Len(out) = 1

----------------------------------------------------------------------------
(* Nonce collection: bm1398_get_nonce_count and bm1398_read_nonces.        *)

\* what the hardware may keep in bits 31..15 of the word at 0x018
CountFlags == { Zero32, <<\hFF, \hFF, \h80, \h00>>, <<\h00, \h00, \h80, \h00>> }

\* the window after bm1398_init with flags in the upper bits of 0x018
CollectWindow(flags) == [BootWindow(Zero32) EXCEPT ![REG_NONCE_NUMBER_IN_FIFO] = flags]

InitCollect ==
    /\ InitCommon
    /\ \E flags \in CountFlags : regs = CollectWindow(flags)
    /\ chips_per_chain = DetectedChips(Chains)
    /\ \E n \in 0..(MaxStale + 1) : nonceFifo = StaleFifo(n)
    /\ entry = [regs |-> regs, fifo |-> nonceFifo]

CallGetNonceCount == Enter("bm1398_get_nonce_count", 0, 0)

CallReadNonces == \E max_count \in 0..MaxRead : Enter("bm1398_read_nonces", 0, max_count)

NextCollect ==
    \/ CallGetNonceCount
    \/ CallReadNonces
    \/ get_nonce_count_step
    \/ read_nonces_count_step
    \/ read_nonces_loop_step
    \/ return_step

SpecCollect == InitCollect /\ [][NextCollect]_vars

\* the word at byte offset 0x018
NonceCountWord == 6

\* the low 15 bits of a word, as a number
Mask15(x) == (x[3] % 128) * 256 + x[4]

\* the number the word at 0x018 held, masked to 15 bits, when the call began
CountAtEntry == Len(entry.fifo) \div 2

\* entry k of the FIFO fifo, decoded
FifoRecord(fifo, k) ==
    LET w0 == fifo[2 * k - 1]
        w1 == fifo[2 * k]
    IN  [nonce |-> w0, chain_id |-> Bits(w1, 31), chip_id |-> Bits(w1, 23),
         core_id |-> Bits(w1, 15), work_id |-> Bits(w1, 7)]

\* entry k of the FIFO the call began with, decoded
EntryRecord(k) == FifoRecord(entry.fifo, k)

\* C11: bm1398_get_nonce_count returns the value at offset 0x018 masked to
\* 15 bits, and bm1398_read_nonces(max) returns exactly min(count, max)
\* records, popping two FIFO words per record and none beyond that.
C11_CountAndDrain ==
    /\ Returned("bm1398_get_nonce_count") =>
           /\ ret = Mask15(NonceCountRegister)
           /\ trace = <<EvRead(NonceCountWord)>>
           /\ nonceFifo = entry.fifo
    /\ Returned("bm1398_read_nonces") =>
           LET n == IF CountAtEntry < call.arg THEN CountAtEntry ELSE call.arg
           IN  /\ ret = n
               /\ out = [k \in 1..n |-> EntryRecord(k)]
               /\ nonceFifo = SubSeq(entry.fifo, 2 * n + 1, Len(entry.fifo))
               /\ Len(Positions(LAMBDA k : IsReadOf(k, ReturnNonceWord))) = 2 * n

\* a drain cut short by max_count, with flag bits set above the count
C11_Witness ==
    /\ Returned("bm1398_read_nonces")
    /\ entry.regs[NonceCountWord] = <<\hFF, \hFF, \h80, \h00>>
    /\ CountAtEntry = 3 /\ call.arg = 2
    /\ ret = 2 /\ Len(nonceFifo) = 2

----------------------------------------------------------------------------
(* Two callers at once: the first collects nonces with bm1398_read_nonces  *)
(* (the steps above, on stack), the second runs bm1398_send_work, one      *)
(* access to the window per step.  The chain answers pushed work with a    *)
(* nonce.                                                                  *)

\* what no step of the second caller changes
firstCaller == <<chips_per_chain, stack, status, ret, out, trace, timeouts,
                 sentAfterFail, checkedFail, call, entry, ctx>>

\* the access of the second caller to word
Accessed(word) == [submitter EXCEPT !.accessed = @ \cup {word}]

\* the calls the second caller may make: work id 7 on the first chain, the
\* other work on the last
SubmitInputs ==
    {input \in [chain : {0, MAX_CHAINS - 1}, work : WorkInputs] :
        (input.chain = 0) = (input.work.work_id = U32(7))}

\* bm1398_send_work is entered
submit_call ==
    /\ submitter.pc = "idle"
    /\ \E input \in SubmitInputs :
         submitter' = [SubmitterIdle EXCEPT !.pc = "debug_space", !.chain = input.chain,
                                            !.work = input.work, !.timeout = WorkFifoBudget]
    /\ UNCHANGED <<regs, nonceFifo, hist, workFifo>>
    /\ UNCHANGED firstCaller

\* the read of 0x00C for the debug message
submit_debug_space_step ==
    /\ submitter.pc = "debug_space"
    /\ submitter' = [Accessed(REG_BUFFER_SPACE) EXCEPT !.pc = "wait"]
    /\ UNCHANGED <<regs, nonceFifo, hist, workFifo>>
    /\ UNCHANGED firstCaller

\* one evaluation of the condition of the wait loop, and the loop body when
\* it holds; no more than MaxPolls polls that find no space are taken this way
submit_poll_step ==
    /\ submitter.pc = "wait"
    /\ \E buffer_status \in BufferSpaceReads :
         IF bm1398_check_work_fifo_ready(buffer_status, submitter.chain) < 1
            /\ submitter.timeout > 0
         THEN /\ WorkFifoBudget - submitter.timeout < MaxPolls
              /\ submitter' = [Accessed(REG_BUFFER_SPACE) EXCEPT !.timeout = @ - 1]
         ELSE submitter' = [Accessed(REG_BUFFER_SPACE) EXCEPT !.pc = "check"]
    /\ UNCHANGED <<regs, nonceFifo, hist, workFifo>>
    /\ UNCHANGED firstCaller

\* every poll left in the budget finds no space, and the loop ends with
\* timeout at 0
submit_starve_step ==
    /\ submitter.pc = "wait"
    /\ WorkFifoBudget - submitter.timeout >= MaxPolls
    /\ submitter' = [Accessed(REG_BUFFER_SPACE) EXCEPT !.timeout = 0, !.pc = "check"]
    /\ UNCHANGED <<regs, nonceFifo, hist, workFifo>>
    /\ UNCHANGED firstCaller

\* if (timeout == 0) return -1; timeout is not used for anything but a
\* message afterwards
submit_check_step ==
    /\ submitter.pc = "check"
    /\ submitter' = IF submitter.timeout = 0
                    THEN [submitter EXCEPT !.pc = "done", !.ret = -1]
                    ELSE [submitter EXCEPT !.pc = "push", !.timeout = 0]
    /\ UNCHANGED <<regs, nonceFifo, hist, workFifo>>
    /\ UNCHANGED firstCaller

\* words in work_packet_t
NumWorkWords == Len(WorkPacketBytes(0, CHOOSE work \in WorkInputs : TRUE)) \div 4

\* one pass of the push loop: words[i] goes to the work FIFO
submit_push_step ==
    /\ submitter.pc = "push"
    /\ LET bytes == WorkPacketBytes(submitter.chain, submitter.work)
           index == WorkWordIndex(submitter.i)
           word == WorkWord(bytes, submitter.i)
       IN  /\ regs' = fpga_write_indirect(regs, index, word)
           /\ workFifo' = WorkFifoAfter(workFifo, index, word)
           /\ submitter' = [Accessed(MapWord(index)) EXCEPT
                               !.pushed = Append(@, <<MapWord(index), word>>),
                               !.i = @ + 1,
                               !.pc = IF submitter.i + 1 < NumWorkWords
                                      THEN "push" ELSE "debug_fifo"]
    /\ UNCHANGED <<nonceFifo, hist>>
    /\ UNCHANGED firstCaller

\* a debug read that pops the return FIFO
DebugReadOfReturnNonce == REG_RETURN_NONCE

\* the word bm1398_send_work reads back for its last debug message
SubmitDebugWord == 64 \div 4

\* the read of ctx->fpga_regs[0x040 / 4]; a read of 0x010 pops the return FIFO
submit_debug_fifo_step ==
    /\ submitter.pc = "debug_fifo"
    /\ submitter' = [Accessed(SubmitDebugWord) EXCEPT !.pc = "sleep"]
    /\ nonceFifo' = IF SubmitDebugWord = REG_RETURN_NONCE THEN AfterPop(nonceFifo)
                    ELSE nonceFifo
    /\ UNCHANGED <<regs, hist, workFifo>>
    /\ UNCHANGED firstCaller

\* usleep(10); return 0
submit_return_step ==
    /\ submitter.pc = "sleep"
    /\ submitter' = [submitter EXCEPT !.pc = "done", !.ret = 0]
    /\ UNCHANGED <<regs, nonceFifo, hist, workFifo>>
    /\ UNCHANGED firstCaller

\* the nonce word of the chain's answer
AnswerNonce == <<\hCA, \hFE, \hF0, \h0D>>

\* the entry the chain puts in the return FIFO for the packet it received:
\* its chain, a chip, a core, and the byte at offset 4 of the packet as the
\* 8-bit work id
AsicAnswer == << AnswerNonce, <<submitter.chain, 2, 5, submitter.pushed[2][2][1]>> >>

\* the chain answers the pushed work
asic_answer_step ==
    /\ submitter.i = NumWorkWords
    /\ "answered" \notin hist
    /\ nonceFifo' = nonceFifo \o AsicAnswer
    /\ hist' = hist \cup {"answered"}
                    \cup (IF status = "running" THEN {"answered_during_call"} ELSE {})
    /\ UNCHANGED <<regs, submitter, workFifo>>
    /\ UNCHANGED firstCaller

\* a stale entry whose metadata word has high bits set in every field
NoisyEntry == << <<\hDE, \hAD, \hBE, \hEF>>, <<\h80, \h01, \h7F, \hFE>> >>

InitMining ==
    /\ InitCommon
    /\ regs = BootWindow(Zero32)
    /\ chips_per_chain = DetectedChips(Chains)
    /\ nonceFifo \in {StaleFifo(0), StaleFifo(MaxStale), NoisyEntry \o StaleFifo(1)}
    /\ entry = [regs |-> regs, fifo |-> nonceFifo]

\* the first caller drains up to max_count entries
CallCollectNonces == \E max_count \in {1, MaxRead} : Enter("bm1398_read_nonces", 0, max_count)

NextMining ==
    \/ CallCollectNonces
    \/ read_nonces_count_step
    \/ read_nonces_loop_step
    \/ return_step
    \/ submit_call
    \/ submit_debug_space_step
    \/ submit_poll_step
    \/ submit_starve_step
    \/ submit_check_step
    \/ submit_push_step
    \/ submit_debug_fifo_step
    \/ submit_return_step
    \/ asic_answer_step

SpecMining == InitMining /\ [][NextMining]_vars

\* record k of out decodes the chain's answer to the submitted work
AnswersSubmitted(k) == out[k].nonce = AnswerNonce

\* (submitted work_id << 3) & 0xFF
SubmittedWorkId8 == (submitter.work.work_id[4] * 8) % 256

\* the work_id of a record that answers the submitted work is
\* (submitted work_id << 3) & 0xFF
MatchedWorkId ==
    \A k \in 1..Len(out) : AnswersSubmitted(k) => out[k].work_id = SubmittedWorkId8

\* C12: every nonce record the collector returns has chain_id < 16, and the
\* work_id of a record that answers a submitted work is
\* (submitted work_id << 3) & 0xFF.
C12_RecordInvariant ==
    /\ \A k \in 1..Len(out) : out[k].chain_id < 16
    /\ MatchedWorkId

\* the window words the first caller has read or written
CollectorAccessed ==
    {trace[k][2] : k \in {j \in 1..Len(trace) : trace[j][1] \in {"read", "write"}}}

\* word n (from 1) of the packet for work on chain: bytes 4n-4 .. 4n-1, first
\* byte most significant
ExpectedPacketWord(chain, work, n) ==
    LET bytes == <<1, 128 + chain, 0, 0>> \o StoreLE(Shl3(work.work_id))
                     \o work.work_data
                     \o work.midstates[1] \o work.midstates[2]
                     \o work.midstates[3] \o work.midstates[4]
    IN  <<bytes[4 * n - 3], bytes[4 * n - 2], bytes[4 * n - 1], bytes[4 * n]>>

\* the records bm1398_read_nonces(max_count) returns when it runs alone on fifo
SerialDrain(fifo, max_count) ==
    LET count == Len(fifo) \div 2
    IN  [k \in 1..(IF count < max_count THEN count ELSE max_count) |-> FifoRecord(fifo, k)]

\* the records of the two runs of the callers one after the other: the
\* collector first, or after the work was pushed and answered
SerialRecords ==
    {SerialDrain(entry.fifo, call.arg)}
        \cup (IF "answered_during_call" \in hist
              THEN {SerialDrain(entry.fifo \o AsicAnswer, call.arg)} ELSE {})

\* C13: a bm1398_send_work caller and a nonce-collector caller running at the
\* same time access disjoint offsets of the window, and every interleaving of
\* their accesses gives the pushed packet words and the decoded records of
\* running the two one after the other.
C13_CallersIndependent ==
    /\ submitter.accessed \cap CollectorAccessed = {}
    /\ (submitter.pc = "done" /\ submitter.ret = 0) =>
           submitter.pushed =
               [n \in 1..37 |->
                   <<WorkFifoWord, ExpectedPacketWord(submitter.chain, submitter.work, n)>>]
    /\ (submitter.pc = "done" /\ submitter.ret < 0) => submitter.pushed = <<>>
    /\ Returned("bm1398_read_nonces") => out \in SerialRecords

\* both callers are done, the work was answered while the collector ran, and
\* the collector has decoded the answer
C13_Witness ==
    /\ Returned("bm1398_read_nonces")
    /\ submitter.pc = "done" /\ submitter.ret = 0
    /\ "answered_during_call" \in hist
    /\ \E k \in 1..Len(out) : AnswersSubmitted(k)

----------------------------------------------------------------------------
(* The UART transport called on its own: bm1398_send_uart_cmd(chain, cmd). *)

RECURSIVE StoreCmdEvents(_, _)
\* the stores of the data words k .. of cmd
StoreCmdEvents(cmd, k) ==
    IF k >= (Len(cmd) + 3) \div 4 THEN <<>>
    ELSE <<EvWrite(REG_BC_COMMAND_BUFFER + k, __builtin_bswap32(LoadLE(CmdGroup(cmd, k))))>>
             \o StoreCmdEvents(cmd, k + 1)

\* the checks of bm1398_send_uart_cmd with the length limit one too high
InvalidCommandOffByOne(chain, cmd) ==
    chain < 0 \/ chain >= MAX_CHAINS \/ Len(cmd) = 0 \/ Len(cmd) > 13

\* the checks at the top of bm1398_send_uart_cmd, on an initialised context
\* and a non-null cmd
InvalidCommand(chain, cmd) ==
    chain < 0 \/ chain >= MAX_CHAINS \/ Len(cmd) = 0 \/ Len(cmd) > 12

\* the checks at the top of bm1398_send_uart_cmd, then the data words and the
\* trigger
uart_store_step ==
    /\ At("uart_store")
    /\ IF InvalidCommand(Top.chain, Top.arg)
       THEN /\ Leave(-1)
            /\ UNCHANGED <<regs, trace>>
       ELSE LET trigger == Or32(BC_COMMAND_BUFFER_READY, BC_CHAIN_ID(Top.chain))
            IN  /\ regs' = [StoreCmdWords(regs, Top.arg, 0) EXCEPT
                               ![REG_BC_WRITE_COMMAND] = trigger]
                /\ trace' = trace \o StoreCmdEvents(Top.arg, 0)
                                  \o <<EvWrite(REG_BC_WRITE_COMMAND, trigger)>>
                /\ Continue
    /\ UNCHANGED <<chips_per_chain, nonceFifo, out, timeouts, sentAfterFail, checkedFail,
                   hist, call, entry, submitter, workFifo, ctx>>

\* the window once the hardware has sent the command: bit 31 of 0x0C0 clear
CommandSent(r) ==
    [r EXCEPT ![REG_BC_WRITE_COMMAND] = And32(@, Not32(BC_COMMAND_BUFFER_READY))]

\* the passes of the wait loop taken in one step when a poll reads bit 31
\* set with budget left: one, but for the stretch between the first MaxPolls
\* polls and the last MaxPolls, where every poll reads the bit set
\* PollRun for a loop that counts timeout up instead of down
PollRunUpward(budget) == -1

PollRun(budget) ==
    IF budget > MaxPolls /\ UartPollBudget - budget >= MaxPolls THEN budget - MaxPolls ELSE 1

\* one evaluation of the condition of the wait loop, and the loop body when
\* it holds; the hardware may have sent the command by then.  The polls and
\* the 1 us sleeps are not listed in trace; hist keeps whether a poll read
\* bit 31 clear while timeout > 0 or when timeout had reached 0.
uart_wait_step ==
    /\ At("uart_wait")
    /\ \E window \in {regs, CommandSent(regs)} :
         LET busy == And32(window[REG_BC_WRITE_COMMAND], BC_COMMAND_BUFFER_READY) # Zero32
             budget == Top.loc.timeout
         IN  /\ regs' = window
             /\ IF busy /\ budget > 0
                THEN /\ stack' = [stack EXCEPT ![1].loc.timeout = @ - PollRun(budget)]
                     /\ UNCHANGED hist
                ELSE /\ stack' = Advance(stack)
                     /\ hist' = IF busy THEN hist
                                ELSE IF budget > 0 THEN hist \cup {"clear_in_budget"}
                                ELSE hist \cup {"clear_at_expiry"}
    /\ UNCHANGED <<chips_per_chain, nonceFifo, status, ret, out, trace, timeouts,
                   sentAfterFail, checkedFail, call, entry, submitter, workFifo, ctx>>

\* the whole wait loop in one step, when the hardware sends the command
\* before poll clearsAt (counted from 0) and not at all for UartPollBudget
uart_wait_all_step ==
    /\ At("uart_wait")
    /\ \E clearsAt \in UartClearPolls :
         IF clearsAt < UartPollBudget
         THEN /\ regs' = CommandSent(regs)
              /\ stack' = Advance([stack EXCEPT ![1].loc.timeout = UartPollBudget - clearsAt])
              /\ hist' = hist \cup {"clear_in_budget"}
         ELSE /\ stack' = Advance([stack EXCEPT ![1].loc.timeout = 0])
              /\ UNCHANGED <<regs, hist>>
    /\ UNCHANGED <<chips_per_chain, nonceFifo, status, ret, out, trace, timeouts,
                   sentAfterFail, checkedFail, call, entry, submitter, workFifo, ctx>>

\* if (timeout == 0) return -1
uart_wait_check_step ==
    /\ At("uart_wait_check")
    /\ IF Top.loc.timeout = 0
       THEN Leave(-1)
       ELSE /\ stack' = Advance(stack)
            /\ UNCHANGED <<status, ret>>
    /\ UNCHANGED <<regs, chips_per_chain, nonceFifo, out, trace, timeouts, sentAfterFail,
                   checkedFail, hist, call, entry, submitter, workFifo, ctx>>

InitUart ==
    /\ InitCommon
    /\ \E fill \in {Zero32, <<\hFF, \hFF, \hFF, \hFF>>} : regs = BootWindow(fill)
    /\ chips_per_chain = DetectedChips(Chains)
    /\ nonceFifo = <<>>
    /\ entry = [regs |-> regs, fifo |-> nonceFifo]

\* a frame of each kind goes out on a chain
CallSendFrame ==
    \E chain \in Chains :
        \E cmd \in {ChainInactiveFrame, WriteRegisterFrame(TRUE, 0, ASIC_REG_CLK_CTRL, Zero32)} :
            Enter("bm1398_send_uart_cmd", chain, cmd)

NextUartWait ==
    \/ CallSendFrame
    \/ uart_store_step
    \/ uart_wait_step
    \/ uart_wait_check_step
    \/ return_step

SpecUartWait == InitUart /\ [][NextUartWait]_vars

\* C14: bm1398_send_uart_cmd returns success if and only if a poll of 0x0C0
\* within the budget of 10 000 polls reads bit 31 clear, and returns the
\* timeout error only when every poll, the last one included, read bit 31 set.
C14_SuccessIffCleared ==
    Returned("bm1398_send_uart_cmd") =>
        /\ ret = 0 <=> "clear_in_budget" \in hist
        /\ ret < 0 => hist = {}

\* the part of C14 about the polls made within the budget
UartSuccessIffClearedInBudget ==
    Returned("bm1398_send_uart_cmd") => (ret = 0 <=> "clear_in_budget" \in hist)

----------------------------------------------------------------------------
(* bm1398_send_uart_cmd over commands of every length, the wait in one step. *)

\* 13 bytes with high and low bits set
CmdPattern == <<\h81, \h02, \hC3, \h04, \hE5, \h06, \h07, \hF8, \h09, \h1A, \hFB, \h0C, \h7D>>

\* commands of 0..13 bytes: the first bytes of CmdPattern, their complements,
\* and the frames the driver builds
UartCmds ==
    {SubSeq(CmdPattern, 1, n) : n \in 0..13}
        \cup {[k \in 1..n |-> 255 - CmdPattern[k]] : n \in 1..13}
        \cup {ChainInactiveFrame, SetAddressFrame(\h72),
              WriteRegisterFrame(FALSE, \h04, ASIC_REG_CORE_CONFIG, CORE_CONFIG_ENABLE)}

CallSendUartCmd ==
    \E chain \in (-1)..MAX_CHAINS : \E cmd \in UartCmds :
        Enter("bm1398_send_uart_cmd", chain, cmd)

NextUartCmd ==
    \/ CallSendUartCmd
    \/ uart_store_step
    \/ uart_wait_all_step
    \/ uart_wait_check_step
    \/ return_step

SpecUartCmd == InitUart /\ [][NextUartCmd]_vars

\* the word at byte offset 0x0C0
TriggerWord == 48

\* the word at byte offset 0x0C4
CommandBufferWord == 49

\* C15: bm1398_send_uart_cmd with len = 0 or len = 13 returns an error and
\* leaves every word of the window unchanged, the command buffer and the
\* trigger included.
C15_BadLengthRejected ==
    (Returned("bm1398_send_uart_cmd") /\ Len(call.arg) \in {0, 13}) =>
        /\ ret < 0
        /\ regs = entry.regs
        /\ trace = <<>>

\* a 13-byte command for a valid chain has been turned down
C15_Witness ==
    /\ Returned("bm1398_send_uart_cmd")
    /\ Len(call.arg) = 13 /\ call.chain = 1
    /\ entry.regs[CommandBufferWord + 3] = <<\hFF, \hFF, \hFF, \hFF>>
    /\ ret = -1

\* bytes 4k .. 4k+3 of cmd as a big-endian word, bytes past the end as zero
BigEndianGroup(cmd, k) == [j \in 1..4 |-> IF 4 * k + j <= Len(cmd) THEN cmd[4 * k + j] ELSE 0]

\* ceil(len / 4)
DataWords(cmd) == (Len(cmd) + 3) \div 4

\* C16: for a command of 1..12 bytes and chain c in 0..2,
\* bm1398_send_uart_cmd stores word k, for k < ceil(len/4), at byte offset
\* 0x0C4 + 4k as the big-endian value of bytes 4k..4k+3 with missing
\* trailing bytes as zero, and only after all data words writes
\* (1<<31) | (c<<16) to offset 0x0C0.
C16_CommandWords ==
    (Returned("bm1398_send_uart_cmd") /\ call.chain \in 0..2 /\ Len(call.arg) \in 1..12) =>
        /\ WriteEvents =
               [n \in 1..(DataWords(call.arg) + 1) |->
                   IF n <= DataWords(call.arg)
                   THEN EvWrite(CommandBufferWord + n - 1, BigEndianGroup(call.arg, n - 1))
                   ELSE EvWrite(TriggerWord, <<\h80, call.chain, 0, 0>>)]
        /\ \A k \in 0..(DataWords(call.arg) - 1) :
               regs[CommandBufferWord + k] = BigEndianGroup(call.arg, k)
        /\ \A w \in DOMAIN regs :
               (w # TriggerWord /\ (w < CommandBufferWord \/ w >= CommandBufferWord + DataWords(call.arg)))
                   => regs[w] = entry.regs[w]

\* a 5-byte command has gone out on chain 2: two data words, the second
\* padded with three zero bytes
C16_Witness ==
    /\ Returned("bm1398_send_uart_cmd")
    /\ call.chain = 2 /\ Len(call.arg) = 5
    /\ ret = 0
    /\ Len(WriteEvents) = 3

----------------------------------------------------------------------------
(* The CRC-5 codec: bm1398_crc5(data, bits).                                *)

\* the byte strings bm1398_crc5 is run on: the empty string, every string of
\* one byte, and the leading bytes of command frames
CrcInputs ==
    {<<>>} \cup { <<byte>> : byte \in 0..255 }
    \cup { <<CMD_PREAMBLE_CHAIN_INACTIVE, CMD_LEN_ADDRESS, 0, 0>>,
           <<CMD_PREAMBLE_SET_ADDRESS, CMD_LEN_ADDRESS, \h72, 0>>,
           <<\hFF, \hFF, \hFF>>, <<\hA5, \h3C>>,
           <<CMD_PREAMBLE_WRITE_BCAST, CMD_LEN_WRITE_REG, 0, \h18, \hF0, \h0F, \h55, \hAA>>,
           <<CMD_PREAMBLE_READ_REG, CMD_LEN_WRITE_REG, \h04, \h08, 0, 0, 0, 0>> }

CallCrc5 ==
    \E data \in CrcInputs : \E bits \in 0..(8 * Len(data)) :
        Enter("bm1398_crc5", 0, [data |-> data, bits |-> bits])

NextCrc ==
    \/ CallCrc5
    \/ crc5_loop_step

SpecCrc == InitUart /\ [][NextCrc]_vars

\* The reference CRC-5, written with arithmetic only.
\* x with bit k inverted
RefFlip(x, k) == IF (x \div Pow2(k)) % 2 = 1 THEN x - Pow2(k) ELSE x + Pow2(k)

\* the state after bit b: ((state << 1) | b) ^ 0x05 when state >> 4 differs
\* from b, (state << 1) | b otherwise, masked to 5 bits
RefNext(state, b) ==
    LET shifted == 2 * state + b
    IN  (IF state \div 16 # b THEN RefFlip(RefFlip(shifted, 0), 2) ELSE shifted) % 32

\* the state after the j most significant bits of byte, taken in that order
RECURSIVE RefSteps(_, _, _)
RefSteps(state, byte, j) ==
    IF j = 0 THEN state
    ELSE RefNext(RefSteps(state, byte, j - 1), (byte \div Pow2(8 - j)) % 2)

\* the state after a whole byte
RefByte == [state \in 0..31 |-> [byte \in 0..255 |-> RefSteps(state, byte, 8)]]

\* the reference CRC-5 of the first n bits of data
RECURSIVE RefCrc5(_, _)
RefCrc5(data, n) ==
    IF n = 0 THEN 31
    ELSE LET whole == (n - 1) \div 8
             prev == RefCrc5(data, 8 * whole)
         IN  IF n = 8 * whole + 8 THEN RefByte[prev][data[whole + 1]]
             ELSE RefSteps(prev, data[whole + 1], n - 8 * whole)

\* C17: bm1398_crc5(data, n_bits) equals the reference CRC-5 (state 0x1F at
\* the start, one step per bit taken most significant first) for every byte
\* string and bit count; the result for 0 bits is 0x1F and every result is
\* below 32.
C17_Crc5MatchesReference ==
    Returned("bm1398_crc5") =>
        /\ ret = RefCrc5(call.arg.data, call.arg.bits)
        /\ ret = bm1398_crc5(call.arg.data, call.arg.bits)
        /\ ret < 32
        /\ call.arg.bits = 0 => ret = 31
        /\ trace = <<>> /\ regs = entry.regs

\* the CRC of the 32 bits before the CRC byte of the chain-inactive frame
\* has been computed, and it is not the initial value
C17_Witness ==
    /\ Returned("bm1398_crc5")
    /\ call.arg = [data |-> <<CMD_PREAMBLE_CHAIN_INACTIVE, CMD_LEN_ADDRESS, 0, 0>>, bits |-> 32]
    /\ ret # 31

----------------------------------------------------------------------------
(* The command frames: bm1398_chain_inactive, bm1398_set_chip_address,      *)
(* bm1398_write_register and bm1398_read_register.                          *)

InitFrames ==
    /\ InitCommon
    /\ regs = BootWindow(Zero32)
    /\ chips_per_chain = DetectedChips(Chains)
    /\ \E n \in {0, 1} : nonceFifo = StaleFifo(n)
    /\ entry = [regs |-> regs, fifo |-> nonceFifo]

FrameChips == {0, 4, \hFF}

FrameRegs == {ASIC_REG_CLK_CTRL, ASIC_REG_SOFT_RESET}

FrameValues == {Zero32, <<\h12, \h34, \h56, \h78>>, <<\hFF, \hFF, \hFF, \hFF>>}

CallChainInactive == \E chain \in Chains : Enter("bm1398_chain_inactive", chain, 0)

CallSetChipAddress ==
    \E chain \in Chains : \E addr \in FrameChips \cup {\h72} :
        Enter("bm1398_set_chip_address", chain, addr)

CallWriteRegister ==
    \E chain \in Chains : \E broadcast \in BOOLEAN : \E chip_addr \in FrameChips :
        \E reg_addr \in FrameRegs : \E value \in FrameValues :
            Enter("bm1398_write_register", chain,
                  [value |-> value, broadcast |-> broadcast,
                   chip_addr |-> chip_addr, reg_addr |-> reg_addr])

CallReadRegister ==
    \E chain \in Chains : \E broadcast \in BOOLEAN : \E chip_addr \in FrameChips :
        \E reg_addr \in FrameRegs : \E timeout_ms \in {0, 1} :
            Enter("bm1398_read_register", chain,
                  [broadcast |-> broadcast, chip_addr |-> chip_addr,
                   reg_addr |-> reg_addr, timeout_ms |-> timeout_ms])

NextFrames ==
    \/ CallChainInactive
    \/ CallSetChipAddress
    \/ CallWriteRegister
    \/ CallReadRegister
    \/ send_step
    \/ read_response_step
    \/ return_step

SpecFrames == InitFrames /\ [][NextFrames]_vars

\* the frames handed to the transport so far
FramesSent == SelectSeq(trace, LAMBDA e : e[1] = "uart")

\* the layout C18 gives for the frame of the top-level call, CRC byte aside
FrameLayout ==
    CASE call.fn = "bm1398_chain_inactive" -> <<\h53, \h05, 0, 0>>
      [] call.fn = "bm1398_set_chip_address" -> <<\h40, \h05, call.arg, 0>>
      [] call.fn = "bm1398_write_register" ->
             <<IF call.arg.broadcast THEN \h51 ELSE \h41, \h09, call.arg.chip_addr,
               call.arg.reg_addr, call.arg.value[1], call.arg.value[2],
               call.arg.value[3], call.arg.value[4]>>
      [] call.fn = "bm1398_read_register" ->
             <<IF call.arg.broadcast THEN \h52 ELSE \h42, \h09, call.arg.chip_addr,
               call.arg.reg_addr, 0, 0, 0, 0>>

\* C18: every frame the driver hands to the transport (chain-inactive,
\* set-address, write-register, read-register) has the stated layout and has
\* as its last byte the CRC5 of all the bytes before it: of 32 bits for the
\* 5-byte form, of 64 bits for the 9-byte form.
C18_FrameCrc ==
    /\ Len(FramesSent) <= 1
    /\ (status = "returned" => Len(FramesSent) = 1)
    /\ \A k \in 1..Len(FramesSent) :
           LET F == FramesSent[k][3]
               n == Len(F)
           IN  /\ FramesSent[k][2] = call.chain
               /\ n \in {5, 9}
               /\ SubSeq(F, 1, n - 1) = FrameLayout
               /\ F[n] = RefCrc5(SubSeq(F, 1, n - 1), 8 * (n - 1))
               /\ F[n] = RefCrc5(F, IF n = 5 THEN 32 ELSE 64)

\* a broadcast read-register frame has been sent and answered
C18_Witness ==
    /\ Returned("bm1398_read_register") /\ ret = 0
    /\ call.arg.broadcast /\ call.arg.chip_addr = 4
    /\ Len(FramesSent) = 1 /\ Len(FramesSent[1][3]) = 9
    /\ FramesSent[1][3][9] # 31

----------------------------------------------------------------------------
(* The indirect accessors: fpga_read_indirect and fpga_write_indirect.  The *)
(* window is storage here: a load returns the word last stored.             *)

IndirectValues == {Zero32, <<\hDE, \hAD, \hBE, \hEF>>, <<\hFF, \hFF, \hFF, \hFF>>}

\* the logical indices passed: every valid one, and the nearest invalid ones
IndirectIndices == (-1)..FPGA_REGISTER_MAP_SIZE

CallWriteIndirect ==
    \E mapped \in BOOLEAN : \E index \in IndirectIndices : \E value \in IndirectValues :
        Enter("fpga_write_indirect", 0, [value |-> value, index |-> index, mapped |-> mapped])

CallReadIndirect ==
    \E mapped \in BOOLEAN : \E index \in IndirectIndices :
        Enter("fpga_read_indirect", 0, [index |-> index, mapped |-> mapped])

CallWriteThenRead ==
    \E index \in IndirectIndices : \E value \in IndirectValues : \E writes \in 1..MaxWrites :
        Enter("write_then_read", 0,
              [value |-> value, index |-> index, writes |-> writes, mapped |-> TRUE])

NextIndirect ==
    \/ CallWriteIndirect
    \/ CallReadIndirect
    \/ CallWriteThenRead
    \/ call_step
    \/ write_indirect_step
    \/ load_indirect_step
    \/ return_step

SpecIndirect == InitUart /\ [][NextIndirect]_vars

\* the entry of the register map for logical index i
MAP(i) == fpga_register_map[i + 1]

IndirectCall == call.fn \in {"fpga_write_indirect", "fpga_read_indirect", "write_then_read"}

\* the top-level call was made with a mapping and an index in 0..109
ValidAccess ==
    IndirectCall /\ call.arg.mapped /\ call.arg.index \in 0..109

\* C19: for every logical index i in 0..109 and every value v,
\* fpga_write_indirect(i, v) stores v in the word at MAP[i] and nowhere else,
\* fpga_read_indirect(i) reads that same word, and after one or more
\* fpga_write_indirect(i, v) a following fpga_read_indirect(i) returns v.
C19_IndirectRoundTrip ==
    (status = "returned" /\ ValidAccess) =>
        LET i == call.arg.index
        IN  /\ call.fn = "fpga_write_indirect" =>
                   /\ trace = <<EvWrite(MAP(i), call.arg.value)>>
                   /\ regs = [entry.regs EXCEPT ![MAP(i)] = call.arg.value]
                   /\ out = <<>>
            /\ call.fn = "fpga_read_indirect" =>
                   /\ trace = <<EvRead(MAP(i))>>
                   /\ regs = entry.regs
                   /\ out = <<entry.regs[MAP(i)]>>
            /\ call.fn = "write_then_read" =>
                   /\ trace = [k \in 1..(call.arg.writes + 1) |->
                                  IF k <= call.arg.writes THEN EvWrite(MAP(i), call.arg.value)
                                  ELSE EvRead(MAP(i))]
                   /\ regs = [entry.regs EXCEPT ![MAP(i)] = call.arg.value]
                   /\ out = <<call.arg.value>>

\* logical index 5 (word 6) has been written twice with 0xDEADBEEF over a
\* window of zeros and read back
C19_Witness ==
    /\ Returned("write_then_read") /\ ValidAccess
    /\ call.arg.index = 5 /\ call.arg.writes = MaxWrites
    /\ call.arg.value = <<\hDE, \hAD, \hBE, \hEF>>
    /\ entry.regs[6] = Zero32 /\ regs[6] = call.arg.value /\ regs[5] = entry.regs[5]
    /\ out = <<call.arg.value>>

\* the top-level call is an access with a null mapping or an index outside 0..109
FailedAccess ==
    /\ status = "returned"
    /\ call.fn \in {"fpga_write_indirect", "fpga_read_indirect"}
    /\ (~call.arg.mapped \/ call.arg.index \notin 0..109)

\* what the caller gets back is what an access of index j of the same window
\* would have given it: nothing from fpga_write_indirect, the word at MAP[j]
\* from fpga_read_indirect
LooksLikeAccessOf(j) ==
    IF call.fn = "fpga_write_indirect" THEN out = <<>>
    ELSE out = <<entry.regs[MAP(j)]>>

\* an access that fails leaves the window alone and makes no load or store
FailedAccessLeavesWindow ==
    FailedAccess => regs = entry.regs /\ trace = <<>>

\* C20: fpga_read_indirect and fpga_write_indirect called with an index
\* outside 0..109 or with a null mapping fail with an error that the caller
\* can tell apart from a successful access, and the window is left unchanged.
C20_InvalidAccessFails ==
    FailedAccess =>
        /\ regs = entry.regs /\ trace = <<>>
        /\ \A j \in 0..109 : ~LooksLikeAccessOf(j)

----------------------------------------------------------------------------
(* Logical indices 16 and 17. *)

\* fpga_write_indirect(ctx, index, value) has returned, the mapping being there
WroteIndex(index) ==
    Returned("fpga_write_indirect") /\ call.arg.mapped /\ call.arg.index = index

\* the words of the window that differ from what they were at the call
ChangedWords == {w \in DOMAIN regs : regs[w] # entry.regs[w]}

----------------------------------------------------------------------------
(* The waits of the driver, the hardware answering or not. *)

CallI2cWait == \E fn \in {"i2c_wait_ready", "i2c_wait_data"} : Enter(fn, 0, 0)

CallReadRegisterBriefly ==
    \E chain \in Chains : \E timeout_ms \in {0, 1} :
        Enter("bm1398_read_register", chain,
              [broadcast |-> FALSE, chip_addr |-> 0,
               reg_addr |-> ASIC_REG_CLK_CTRL, timeout_ms |-> timeout_ms])

CallSendWorkOnce ==
    \E work \in WorkInputs : Enter("bm1398_send_work", MAX_CHAINS - 1, work)

NextWaits ==
    \/ CallSendFrame
    \/ CallSendWorkOnce
    \/ CallReadRegisterBriefly
    \/ CallI2cWait
    \/ uart_store_step
    \/ uart_wait_step
    \/ uart_wait_check_step
    \/ read_step
    \/ fifo_wait_step
    \/ fifo_wait_check_step
    \/ push_work_step
    \/ usleep_step
    \/ send_step
    \/ read_response_step
    \/ i2c_wait_step
    \/ return_step

\* A step is possible exactly until the top-level call has returned.
WaitsEnabled == status # "returned"

\* The thread that runs the driver is scheduled again and again: weak
\* fairness of NextWaits, with ENABLED <<NextWaits>>_vars written out as
\* WaitsEnabled.
WaitsFairness == []<>(~WaitsEnabled) \/ []<><<NextWaits>>_vars

SpecWaits == InitFrames /\ [][NextWaits]_vars /\ WaitsFairness

\* the reads of the I2C control word the top-level call has made
I2cPolls == Len(SelectSeq(trace, LAMBDA e : e = EvRead(REG_I2C_CTRL)))

\* no poll of the top-level call has found what it waited for
NothingCame ==
    CASE call.fn = "bm1398_send_uart_cmd" -> "clear_in_budget" \notin hist
      [] call.fn = "bm1398_send_work" -> "ready_in_budget" \notin hist
      [] call.fn = "bm1398_read_register" -> out = <<>>
      [] call.fn \in {"i2c_wait_ready", "i2c_wait_data"} ->
             trace # <<>> /\ trace[Len(trace)] = EvSleep(5000)
      [] OTHER -> FALSE

\* a pass of a wait loop leaves the loop or uses up some of its budget
WaitAdvances ==
    (Running /\ Stmt.op \in {"uart_wait", "fifo_wait", "i2c_wait"}) =>
        \/ Len(stack') < Len(stack)
        \/ stack'[1].pc # Top.pc
        \/ (Stmt.op = "i2c_wait" /\ stack'[1].loc.i > Top.loc.i)
        \/ (Stmt.op # "i2c_wait" /\ stack'[1].loc.timeout < Top.loc.timeout)

\* C23: every wait in the driver is bounded: bm1398_send_uart_cmd,
\* bm1398_read_register, bm1398_send_work and the I2C ready and data waits
\* each return, with an error, after a fixed number of polls even if the
\* hardware never changes the polled register.
C23_WaitsAreBounded ==
    /\ (status = "running") ~> (status = "returned")
    /\ [](status = "returned" /\ NothingCame => ret = -1)
    /\ [](status = "returned" /\ call.fn \in {"i2c_wait_ready", "i2c_wait_data"} /\ ret = -1
            => I2cPolls = 200)
    /\ [](Running /\ Stmt.op \in {"uart_wait", "fifo_wait"} =>
            Top.loc.timeout \in 0..(IF Stmt.op = "uart_wait" THEN 10000 ELSE 1000))
    /\ [][WaitAdvances]_vars

\* i2c_wait_data has given up after 200 polls that found no data byte
C23_Witness ==
    /\ Returned("i2c_wait_data") /\ ret = -1
    /\ out = <<>> /\ I2cPolls = 200

----------------------------------------------------------------------------
(* The clock settings: bm1398_set_frequency and bm1398_set_baud_rate, each  *)
(* called on its own with an initialised context.                           *)

Frequencies == {FREQUENCY_525MHZ, 0, 100, 524, 526, 600}

BaudRates == {115200, 3000000, 3000001, BAUD_RATE_12MHZ}

CallSetFrequency ==
    \E chain \in Chains : \E freq_mhz \in Frequencies :
        Enter("bm1398_set_frequency", chain, freq_mhz)

CallSetBaudRate ==
    \E chain \in Chains : \E baud_rate \in BaudRates :
        Enter("bm1398_set_baud_rate", chain, baud_rate)

NextClocks ==
    \/ CallSetFrequency
    \/ CallSetBaudRate
    \/ send_step
    \/ usleep_step
    \/ return_step

SpecClocks == InitFrames /\ [][NextClocks]_vars

\* frame k sent so far is the broadcast write of value to ASIC register reg
\* on the chain of the call
SentBroadcastWrite(k, reg, value) ==
    /\ FramesSent[k][2] = call.chain
    /\ Len(FramesSent[k][3]) = 9
    /\ SubSeq(FramesSent[k][3], 1, 8) =
           <<\h51, \h09, 0, reg, value[1], value[2], value[3], value[4]>>

\* C24: bm1398_set_frequency(chain, 525) broadcasts exactly one write, of
\* 0x40540100 to ASIC register 0x08, and returns success when the send
\* succeeds (and the error when it does not).
C24_Pll525 ==
    (call.fn = "bm1398_set_frequency" /\ call.arg = 525) =>
        /\ Len(FramesSent) <= 1
        /\ \A k \in 1..Len(FramesSent) :
               SentBroadcastWrite(k, \h08, <<\h40, \h54, \h01, \h00>>)
        /\ status = "returned" =>
               /\ Len(FramesSent) = 1
               /\ ret = (IF timeouts = 0 THEN 0 ELSE -1)

\* the PLL write of a 525 MHz request went out and the call succeeded
C24_Witness ==
    /\ Returned("bm1398_set_frequency") /\ call.arg = 525 /\ ret = 0
    /\ Len(FramesSent) = 1 /\ FramesSent[1][3][5] = \h40 /\ FramesSent[1][3][6] = \h54

\* C25: bm1398_set_frequency with a frequency other than 525 fails and sends
\* no PLL register write.
C25_UnsupportedFrequencyFails ==
    (call.fn = "bm1398_set_frequency" /\ call.arg # 525) =>
        /\ FramesSent = <<>>
        /\ status = "returned" => ret = -1

\* the CLK_CTRL value C26 and the divisor formula give for the rates called
ExpectedClkCtrl(baud_rate) ==
    CASE baud_rate = 115200 -> <<\hF0, \h00, \h04, \h1A>>
      [] baud_rate = 3000000 -> <<\hF0, \h00, \h04, \h00>>
      [] baud_rate = 3000001 -> <<\hF0, \h01, \h00, \h0F>>
      [] baud_rate = BAUD_RATE_12MHZ -> <<\hF0, \h01, \h00, \h03>>

\* the registers bm1398_set_baud_rate is to write, in order
ExpectedBaudWrites(baud_rate) ==
    IF baud_rate <= 3000000
    THEN << <<\h18, ExpectedClkCtrl(baud_rate)>> >>
    ELSE << <<\h68, <<\hC0, \h70, \h01, \h11>> >>,
            <<\h28, <<\h06, \h00, \h8F, \h00>> >>,
            <<\h18, ExpectedClkCtrl(baud_rate)>> >>

\* C26: bm1398_set_baud_rate selects the low-speed mode for rates up to
\* 3 000 000 and the high-speed mode from 3 000 001 on; CLK_CTRL (0x18)
\* gets 0xF000041A for 115 200 and 0xF0010003 for 12 MHz; in the high-speed
\* mode 0x68 <- 0xC0700111 and then 0x28 <- 0x06008F00 go out before the
\* CLK_CTRL write.
C26_BaudModes ==
    call.fn = "bm1398_set_baud_rate" =>
        LET expected == ExpectedBaudWrites(call.arg)
        IN  /\ Len(FramesSent) <= Len(expected)
            /\ \A k \in 1..Len(FramesSent) :
                   SentBroadcastWrite(k, expected[k][1], expected[k][2])
            /\ status = "returned" => Len(FramesSent) = Len(expected)

\* the three writes of a change to 12 MHz went out
C26_Witness ==
    /\ Returned("bm1398_set_baud_rate") /\ call.arg = BAUD_RATE_12MHZ /\ ret = 0
    /\ Len(FramesSent) = 3
    /\ SubSeq(FramesSent[3][3], 4, 8) = <<\h18, \hF0, \h01, \h00, \h03>>

----------------------------------------------------------------------------
(* The baud changes of bring-up and the drain of the return FIFO. *)

\* position k holds the CLK_CTRL write of the change to 115 200
IsLowBaudChange(k) == IsBroadcastWrite(k, ASIC_REG_CLK_CTRL, <<\hF0, \h00, \h04, \h1A>>)

\* position k holds the CLK_CTRL write of the change to 12 MHz
IsHighBaudChange(k) == IsBroadcastWrite(k, ASIC_REG_CLK_CTRL, <<\hF0, \h01, \h00, \h03>>)

\* between positions k and m lie a 50 ms sleep and, after it, a read of the
\* count of the return FIFO
SettledAndDrained(k, m) ==
    \E s \in (k + 1)..(m - 1) : \E d \in (s + 1)..(m - 1) :
        /\ trace[s] = EvSleep(50000)
        /\ IsReadOf(d, REG_NONCE_NUMBER_IN_FIFO)

\* every UART command after the change at k comes after a settle and a drain
DrainedBeforeNextCommand(k) ==
    \A m \in (k + 1)..Len(trace) : IsUart(m) => SettledAndDrained(k, m)

\* C27: after every baud change of bring-up, the low one to 115 200 and the
\* high one to 12 MHz, a 50 ms settle is followed by a drain of the nonce
\* FIFO before the next UART command is sent to the chain.
C27_DrainAfterEveryBaudChange ==
    \A k \in 1..Len(trace) :
        (IsLowBaudChange(k) \/ IsHighBaudChange(k)) => DrainedBeforeNextCommand(k)

\* the part of C27 about the change to 12 MHz
HighBaudChangeIsDrained ==
    \A k \in 1..Len(trace) : IsHighBaudChange(k) => DrainedBeforeNextCommand(k)

\* a return FIFO holding one entry more than stage 2 reads when it drains
OverfullFifo ==
    [w \in 1..(2 * (DiscardNonces + 1)) |->
        LET k == (w - 1) \div 2
        IN  IF w % 2 = 1 THEN <<\hDE, \hAD, k \div 256, k % 256>>
            ELSE <<0, 12, 30, k % 256>>]

InitDrain ==
    /\ InitCommon
    /\ regs = BootWindow(Zero32)
    /\ chips_per_chain = DetectedChips({0, 1})
    /\ nonceFifo \in {StaleFifo(0), StaleFifo(MaxStale), OverfullFifo}
    /\ entry = [regs |-> regs, fifo |-> nonceFifo]

SpecDrain == InitDrain /\ [][NextBringup]_vars

\* the core-reset broadcasts of stage 2 have begun
CoreResetStarted == \E k \in 1..Len(trace) : IsBroadcastTo(k, ASIC_REG_SOFT_RESET)

\* C28: when bring-up leaves the high-baud step and starts the core-reset
\* broadcasts, the nonce FIFO has been drained completely, however many
\* entries it held.
C28_FifoEmptyAtCoreReset == CoreResetStarted => nonceFifo = <<>>

\* the part of C28 for a FIFO of at most 256 entries
SmallFifoEmptyAtCoreReset ==
    (CoreResetStarted /\ Len(entry.fifo) <= 2 * DiscardNonces) => nonceFifo = <<>>

----------------------------------------------------------------------------
(* From power-on: bm1398_init, then bm1398_init_chain as often as the       *)
(* application calls it.  The application stops at the first call that      *)
(* fails.                                                                   *)

\* the window as the bootloader may have left it
PowerOnWindows ==
    { [w \in 0..(WindowWords - 1) |->
          CASE w = 32 -> toggle [] w = 34 -> param [] w = 35 -> timeout [] OTHER -> Zero32] :
      toggle \in {<<\h00, \h80, \h80, \h00>>, <<\h80, \h80, \h80, \h00>>, Zero32},
      param \in {<<\h00, \h00, \h9C, \h40>>, <<\hFF, \hFF, \hFF, \hFF>>, Zero32},
      timeout \in {<<\h80, \h00, \h00, \hF9>>, Zero32} }

InitPowerOn ==
    /\ InitCaller
    /\ ctx \in {ContextZeroed, [fpga_regs |-> "wild", initialized |-> TRUE]}
    /\ regs \in PowerOnWindows
    /\ chips_per_chain = DetectedChips({})
    /\ nonceFifo = StaleFifo(MaxStale)
    /\ entry = [regs |-> regs, fifo |-> nonceFifo]

CallInit == "initialized" \notin hist /\ Enter("bm1398_init", 0, 0)

CallInitChainNext ==
    /\ "initialized" \in hist
    /\ \E chain \in {0, MAX_CHAINS - 1} : Enter("bm1398_init_chain", chain, 0)

\* the application goes on after a call that succeeded
next_call ==
    /\ status = "returned" /\ ret = 0
    /\ status' = "idle"
    /\ trace' = <<>>
    /\ out' = <<>>
    /\ timeouts' = 0
    /\ sentAfterFail' = FALSE
    /\ checkedFail' = FALSE
    /\ UNCHANGED <<regs, chips_per_chain, nonceFifo, stack, ret, hist, call, entry, submitter, workFifo, ctx>>

NextInit ==
    \/ CallInit
    \/ CallInitChainNext
    \/ next_call
    \/ init_open_step
    \/ boot_read_step
    \/ store_step
    \/ boot_fix_step
    \/ store_indirect_step
    \/ modify_indirect_step
    \/ detect_chains_step
    \/ read_step
    \/ usleep_step
    \/ send_step
    \/ call_step
    \/ return_step
    \/ reset_line_step
    \/ enum_interval_step
    \/ enum_loop_step
    \/ drain_step
    \/ read_nonces_count_step
    \/ read_nonces_loop_step
    \/ read_indirect_step

SpecInit == InitPowerOn /\ [][NextInit]_vars

\* bm1398_init has finished its boot-verification step and stands before the
\* indirect seeding
BootVerified ==
    /\ call.fn = "bm1398_init"
    /\ At("modify_indirect") /\ Stmt.index = FPGA_REG_CONTROL

\* C29: the boot-verification step of bm1398_init writes 0x80808000 to 0x080,
\* waits 10 ms and writes 0x00808000; it leaves 0x080 = 0x00808000 whatever
\* the word held before, and forces 0x088 to 0x00009C40 when it held any
\* other value.  No other word of the window changes.
C29_BootVerification ==
    BootVerified =>
        /\ regs = [entry.regs EXCEPT ![32] = <<\h00, \h80, \h80, \h00>>,
                                     ![34] = <<\h00, \h00, \h9C, \h40>>]
        /\ trace = <<EvRead(32), EvRead(34),
                     EvWrite(32, <<\h80, \h80, \h80, \h00>>), EvSleep(10000),
                     EvWrite(32, <<\h00, \h80, \h80, \h00>>), EvSleep(10000),
                     EvRead(32)>>
                   \o (IF entry.regs[34] = <<\h00, \h00, \h9C, \h40>> THEN <<>>
                       ELSE <<EvWrite(34, <<\h00, \h00, \h9C, \h40>>), EvSleep(100000)>>)

\* the step ran on a window whose 0x080 and 0x088 both held other values
C29_Witness ==
    /\ BootVerified
    /\ entry.regs[32] = Zero32 /\ entry.regs[34] = <<\hFF, \hFF, \hFF, \hFF>>
    /\ regs[32] = <<\h00, \h80, \h80, \h00>> /\ regs[34] = <<\h00, \h00, \h9C, \h40>>

----------------------------------------------------------------------------
(* bm1398_read_register and the return FIFO.  The word at 0x018 carries the *)
(* number of entries in its low 15 bits and CountFlags above them.          *)

\* the word a chip answers a read command with, and the word after it
ResponseEntry == << <<\hF0, \h00, \h04, \h1A>>, <<\h00, \h00, \h18, \h00>> >>

InitResponse ==
    /\ InitCommon
    /\ \E flags \in CountFlags : regs = CollectWindow(flags)
    /\ chips_per_chain = DetectedChips(Chains)
    /\ \E n \in {0, 1} : nonceFifo = StaleFifo(n)
    /\ entry = [regs |-> regs, fifo |-> nonceFifo]

CallReadRegisterOnce ==
    \E broadcast \in BOOLEAN : \E timeout_ms \in {0, 1} :
        Enter("bm1398_read_register", 0,
              [broadcast |-> broadcast, chip_addr |-> 0,
               reg_addr |-> ASIC_REG_CLK_CTRL, timeout_ms |-> timeout_ms])

\* the chip's answer enters the return FIFO before the driver polls for it
register_answer_step ==
    /\ call.fn = "bm1398_read_register"
    /\ At("read_response")
    /\ "answered" \notin hist
    /\ nonceFifo' = nonceFifo \o ResponseEntry
    /\ hist' = hist \cup {"answered"}
    /\ UNCHANGED <<regs, chips_per_chain, stack, status, ret, out, trace, timeouts,
                   sentAfterFail, checkedFail, call, entry, submitter, workFifo, ctx>>

NextResponse ==
    \/ CallReadRegisterOnce
    \/ CallGetNonceCount
    \/ register_answer_step
    \/ send_step
    \/ read_response_step
    \/ get_nonce_count_step

SpecResponse == InitResponse /\ [][NextResponse]_vars

\* the return FIFO as the wait of bm1398_read_register found it
FifoAtWait == IF "answered" \in hist THEN entry.fifo \o ResponseEntry ELSE entry.fifo

ReturnNonceReads == Len(Positions(LAMBDA k : IsReadOf(k, REG_RETURN_NONCE)))

\* C31: bm1398_read_register sends the 9-byte read frame and returns the
\* first word read from 0x010 once the FIFO holds at least one entry; when
\* the send fails or no entry appears within timeout_ms it returns an error,
\* leaves *value unwritten and pops nothing from the FIFO.
C31_ReadRegisterContract ==
    Returned("bm1398_read_register") =>
        LET answered == timeouts = 0 /\ call.arg.timeout_ms > 0 /\ Len(FifoAtWait) >= 2
        IN  /\ Len(FramesSent) = 1
            /\ Len(FramesSent[1][3]) = 9
            /\ FramesSent[1][3][1] = (IF call.arg.broadcast THEN \h52 ELSE \h42)
            /\ ret = (IF answered THEN 0 ELSE -1)
            /\ answered => /\ out = <<[value |-> FifoAtWait[1]]>>
                           /\ ReturnNonceReads = 1
                           /\ nonceFifo = Tail(FifoAtWait)
            /\ ~answered => /\ out = <<>>
                            /\ ReturnNonceReads = 0
                            /\ nonceFifo = FifoAtWait

\* C31 on a window whose word at 0x018 has no bit set above the count
ReadRegisterContractCleanCount ==
    entry.regs[REG_NONCE_NUMBER_IN_FIFO] = Zero32 => C31_ReadRegisterContract

\* C40: bm1398_read_register takes the return FIFO to hold a response
\* exactly when bm1398_get_nonce_count reports a count of at least 1, for
\* every value of the word at 0x018.
C40_AvailableIffCounted ==
    (call.fn = "bm1398_read_register" /\ At("read_response")) =>
        (ResponseAvailable <=> bm1398_get_nonce_count >= 1)

----------------------------------------------------------------------------
(* bm1398_reset_chain_stage1 called on its own. *)

CallResetStage1 == \E chain \in Chains : Enter("bm1398_reset_chain_stage1", chain, 0)

NextStage1 ==
    \/ CallResetStage1
    \/ send_step
    \/ usleep_step
    \/ return_step

SpecStage1 == InitFrames /\ [][NextStage1]_vars

\* the broadcasts C32 lists, in order
Stage1Writes ==
    << <<\h18, <<\h00, \h00, \h00, \h00>> >>,
       <<\h34, <<\h00, \h00, \h00, \h00>> >>,
       <<\h18, <<\h0F, \h40, \h00, \h00>> >>,
       <<\h18, <<\hF0, \h00, \h00, \h00>> >>,
       <<\h18, <<\hF0, \h00, \h04, \h00>> >>,
       <<\h34, <<\h00, \h00, \h00, \h08>> >>,
       <<\h14, <<\hFF, \hFF, \hFF, \hFF>> >> >>

\* C32: the commands bm1398_reset_chain_stage1 sends are the seven
\* broadcasts 0x18 <- 0, 0x34 <- 0, 0x18 <- 0x0F400000, 0x18 <- 0xF0000000,
\* 0x18 <- 0xF0000400, 0x34 <- 8 and 0x14 <- 0xFFFFFFFF, in this order and
\* with no other command in between.
C32_Stage1Order ==
    call.fn = "bm1398_reset_chain_stage1" =>
        /\ Len(FramesSent) <= Len(Stage1Writes)
        /\ \A k \in 1..Len(FramesSent) :
               SentBroadcastWrite(k, Stage1Writes[k][1], Stage1Writes[k][2])
        /\ status = "returned" => Len(FramesSent) = Len(Stage1Writes)

\* stage 1 has run to its end with every command sent
C32_Witness ==
    /\ Returned("bm1398_reset_chain_stage1") /\ ret = 0 /\ timeouts = 0
    /\ Len(FramesSent) = 7
    /\ FramesSent[7][3][4] = \h14

----------------------------------------------------------------------------
(* The work-routing word at 0x080 after bm1398_init. *)

\* the value bm1398_enable_work_send compares the word at 0x080 with; any
\* other value makes it print a warning
WorkRoutingExpected == <<\h00, \h80, \h80, \h00>>

\* C33: when bm1398_init returns success the word at 0x080 holds 0x00808000
\* (bit 31 clear), the value bm1398_enable_work_send expects after init.
C33_WorkRoutingAfterInit ==
    (Returned("bm1398_init") /\ ret = 0) =>
        /\ regs[32] = WorkRoutingExpected
        /\ regs[32][1] < 128

----------------------------------------------------------------------------
(* The pattern test: each of the 640 patterns is sent and its nonce matched. *)

\* pattern_test.c: 80 cores of 8 patterns each, on chain 0
CORES_PER_ASIC == 80
PATTERNS_PER_CORE == 8
TEST_CHAIN == 0

\* works[] after load_asic_patterns: for each core and each pat it stores
\* work_ptr->work_id = pat and moves work_ptr on, so works[idx].work_id is
\* idx % 8 (entry idx is element idx + 1 here)
load_asic_patterns ==
    [n \in 1..(CORES_PER_ASIC * PATTERNS_PER_CORE) |->
        [work_id |-> (n - 1) % PATTERNS_PER_CORE, nonce_returned |-> 0]]

\* the arguments send_pattern_work passes to bm1398_send_work for works[idx]
PatternWork(idx) ==
    [work_id |-> <<0, 0, 0, load_asic_patterns[idx + 1].work_id>>,
     work_data |-> [k \in 1..12 |-> (idx + k) % 256],
     midstates |-> [m \in 1..4 |-> [k \in 1..32 |-> (idx + k) % 256]]]

PatternIndices == 0..(CORES_PER_ASIC * PATTERNS_PER_CORE - 1)

\* main, for a nonce equal to works[idx].pattern.nonce:
\* uint8_t expected_work_id = (idx << 3) & 0xFF
match_nonce_step ==
    /\ At("match_nonce")
    /\ out' = Append(out, [idx |-> Top.arg.idx,
                           expected_work_id |-> (Top.arg.idx * 8) % 256])
    /\ Continue
    /\ UNCHANGED <<regs, chips_per_chain, nonceFifo, trace, timeouts, sentAfterFail,
                   checkedFail, hist, call, entry, submitter, workFifo, ctx>>

\* send_pattern_work for one work: bm1398_send_work either gives up waiting
\* for space in the work FIFO (send_pattern_work returns -1 and main stops)
\* or reads 0x00C, pushes the packet, reads 0x040 back and sleeps 10 us,
\* and send_pattern_work sleeps 10 us more
send_pattern_work_step ==
    /\ At("send_pattern_work")
    /\ \E space \in BOOLEAN :
         IF space
         THEN LET bytes == WorkPacketBytes(Top.chain, PatternWork(Top.arg.idx))
              IN  /\ regs' = PushWords(regs, bytes, 0)
                  /\ workFifo' = PushFifo(workFifo, bytes, 0)
                  /\ trace' = trace \o <<EvRead(REG_BUFFER_SPACE)>> \o PushEvents(bytes, 0)
                                   \o <<EvRead(16), EvSleep(10), EvSleep(10)>>
                  /\ Continue
         ELSE /\ Leave(-1)
              /\ trace' = Append(trace, EvRead(REG_BUFFER_SPACE))
              /\ UNCHANGED <<regs, workFifo>>
    /\ UNCHANGED <<chips_per_chain, nonceFifo, out, timeouts, sentAfterFail, checkedFail,
                   hist, call, entry, submitter, ctx>>

CallPatternRound ==
    \E idx \in PatternIndices : Enter("pattern_round", TEST_CHAIN, [idx |-> idx])

NextPattern ==
    \/ CallPatternRound
    \/ send_pattern_work_step
    \/ match_nonce_step
    \/ return_step

SpecPattern == InitWork /\ [][NextPattern]_vars

\* the work_id bm1398_send_work was given, shifted left by 3, as it stands in
\* the second word pushed to the work FIFO: its low byte comes first there
SubmittedShifted == WriteEvents[2][3][1]

\* C34: in the pattern test, for every pattern index idx in 0..639 the
\* work_id expected when matching a returned nonce equals
\* (the work_id that was submitted for that pattern << 3) & 0xFF.
C34_ExpectedWorkId ==
    \A k \in 1..Len(out) :
        /\ out[k].expected_work_id
               = Shl3(<<0, 0, 0, load_asic_patterns[out[k].idx + 1].work_id>>)[4]
        /\ out[k].expected_work_id = SubmittedShifted

\* in the first core (idx 0..7) the pattern index and the submitted work_id
\* are the same number, and the expected work_id is the submitted one shifted
ExpectedWorkIdFirstCore ==
    \A k \in 1..Len(out) :
        out[k].idx < PATTERNS_PER_CORE => out[k].expected_work_id = SubmittedShifted

----------------------------------------------------------------------------
(* Two Submitters, one per chain: the first runs bm1398_send_work on chain *)
(* 1 (on stack), the second on chain 0 or 2 (submitter).  The second may   *)
(* be preempted between any two of its stores; the first is scheduled for  *)
(* its whole push loop at once.                                            *)

\* words[] of the packet of the first Submitter
FirstPacket ==
    IF call.fn # "bm1398_send_work" THEN <<>>
    ELSE [n \in 1..NumWorkWords |-> WorkWord(WorkPacketBytes(call.chain, call.arg), n - 1)]

\* words[] of the packet of the second Submitter
SecondPacket ==
    IF submitter.pc = "idle" THEN <<>>
    ELSE [n \in 1..NumWorkWords |->
             WorkWord(WorkPacketBytes(submitter.chain, submitter.work), n - 1)]

\* the wait loop of the first Submitter: it finds space before its budget
\* runs out, or never
first_wait_step ==
    /\ At("fifo_wait")
    /\ \E space \in BOOLEAN :
         /\ stack' = Advance([stack EXCEPT ![1].loc.timeout = IF space THEN @ ELSE 0])
         /\ trace' = Append(trace, EvRead(REG_BUFFER_SPACE))
    /\ UNCHANGED <<regs, chips_per_chain, nonceFifo, status, ret, out, timeouts,
                   sentAfterFail, checkedFail, hist, call, entry, submitter, workFifo, ctx>>

\* the first Submitter sends the work whose id has high bits set
CallSendWorkMiddle ==
    \E work \in {w \in WorkInputs : w.work_id # U32(7)} : Enter("bm1398_send_work", 1, work)

NextSubmitters ==
    \/ CallSendWorkMiddle
    \/ read_step
    \/ first_wait_step
    \/ fifo_wait_check_step
    \/ push_work_step
    \/ usleep_step
    \/ return_step
    \/ submit_call
    \/ submit_debug_space_step
    \/ submit_poll_step
    \/ submit_starve_step
    \/ submit_check_step
    \/ submit_push_step
    \/ submit_debug_fifo_step
    \/ submit_return_step

SpecSubmitters == InitWork /\ [][NextSubmitters]_vars

\* fifo is the beginning of packet p followed by packet q
BeginningOf(fifo, p, q) ==
    /\ Len(fifo) <= Len(p) + Len(q)
    /\ \A n \in 1..Len(fifo) : fifo[n] = IF n <= Len(p) THEN p[n] ELSE q[n - Len(p)]

\* C35: when bm1398_send_work runs concurrently for two different chains
\* (one Submitter per chain), the 37 words of each packet reach the work
\* FIFO at 0x040 contiguously, never interleaved with words of the other
\* packet.
C35_PacketsContiguous ==
    \/ BeginningOf(workFifo, FirstPacket, SecondPacket)
    \/ BeginningOf(workFifo, SecondPacket, FirstPacket)

\* with one Submitter the words in the work FIFO are the beginning of its
\* packet, 37 words when the call has returned 0
OneSubmitterContiguous ==
    submitter.pc = "idle" =>
        /\ BeginningOf(workFifo, FirstPacket, <<>>)
        /\ (Returned("bm1398_send_work") /\ ret = 0) => Len(workFifo) = NumWorkWords

----------------------------------------------------------------------------
(* Two Collectors, one per chain, on the one return-nonce FIFO: the first  *)
(* runs bm1398_read_nonce or bm1398_read_nonces (on stack), the second     *)
(* runs bm1398_read_nonce (submitter) and may be preempted between its two *)
(* reads of 0x010.                                                         *)

\* the FIFO holds one entry more than the two Collectors take together
InitCollectors ==
    /\ InitCommon
    /\ regs = BootWindow(Zero32)
    /\ chips_per_chain = DetectedChips(Chains)
    /\ \E w0 \in FifoWords : \E w1 \in FifoWords \ {w0} :
         nonceFifo = StaleFifo(MaxStale) \o <<w0, w1>>
    /\ entry = [regs |-> regs, fifo |-> nonceFifo]

\* the first Collector takes one entry
CallCollectOne ==
    \/ Enter("bm1398_read_nonce", 0, 0)
    \/ Enter("bm1398_read_nonces", 0, 1)

\* the second Collector enters bm1398_read_nonce
collect_call ==
    /\ submitter.pc = "idle"
    /\ submitter' = [SubmitterIdle EXCEPT !.pc = "nonce_value", !.chain = MAX_CHAINS - 1]
    /\ UNCHANGED <<regs, nonceFifo, hist, workFifo>>
    /\ UNCHANGED firstCaller

\* uint32_t nonce_value = regs[REG_RETURN_NONCE]
collect_value_step ==
    /\ submitter.pc = "nonce_value"
    /\ submitter' = [Accessed(REG_RETURN_NONCE) EXCEPT
                        !.popped = Append(@, PopWord(nonceFifo)), !.pc = "nonce_meta"]
    /\ nonceFifo' = AfterPop(nonceFifo)
    /\ UNCHANGED <<regs, hist, workFifo>>
    /\ UNCHANGED firstCaller

\* uint32_t nonce_meta = regs[REG_RETURN_NONCE]; the record is filled in and
\* the call returns 1
collect_meta_step ==
    /\ submitter.pc = "nonce_meta"
    /\ submitter' = [Accessed(REG_RETURN_NONCE) EXCEPT
                        !.popped = Append(@, PopWord(nonceFifo)), !.pc = "done", !.ret = 1]
    /\ nonceFifo' = AfterPop(nonceFifo)
    /\ UNCHANGED <<regs, hist, workFifo>>
    /\ UNCHANGED firstCaller

NextCollectors ==
    \/ CallCollectOne
    \/ read_nonce_step
    \/ read_nonces_count_step
    \/ read_nonces_loop_step
    \/ return_step
    \/ collect_call
    \/ collect_value_step
    \/ collect_meta_step

SpecCollectors == InitCollectors /\ [][NextCollectors]_vars

\* the records the two Collectors have been given so far
CollectedRecords ==
    out \o (IF submitter.pc = "done"
            THEN <<NonceRecord(submitter.popped[1], submitter.popped[2])>> ELSE <<>>)

\* entry k (from 1) of the FIFO as it was at the start, decoded
FifoEntryRecord(k) == NonceRecord(entry.fifo[2 * k - 1], entry.fifo[2 * k])

\* C36: when two collectors (one per chain) call bm1398_read_nonce or
\* bm1398_read_nonces concurrently on the shared return-nonce FIFO, each
\* returned record pairs the nonce word and the metadata word of the same
\* FIFO entry, and no entry is returned twice or lost.
C36_CollectorsPairEntries ==
    LET n == Len(CollectedRecords)
        entries == 1..(Len(entry.fifo) \div 2)
    IN  /\ \E f \in [1..n -> entries] :
               /\ \A a, b \in 1..n : a # b => f[a] # f[b]
               /\ \A a \in 1..n : CollectedRecords[a] = FifoEntryRecord(f[a])
        /\ (status # "running" /\ submitter.pc \in {"idle", "done"}) =>
               Len(entry.fifo) - Len(nonceFifo) = 2 * n

\* with one Collector every record is an entry of the FIFO, in order
OneCollectorPairsEntries ==
    submitter.pc = "idle" =>
        \A k \in 1..Len(out) : out[k] = FifoEntryRecord(k)

----------------------------------------------------------------------------
(* Bring-up of a chain that bm1398_init did not detect.                    *)

\* the chip count bm1398_enumerate_chips is running with, if it is running
EnumeratingWith(n) ==
    \E k \in 1..Len(stack) : stack[k].fn = "bm1398_enumerate_chips" /\ stack[k].arg = n

\* C37: bm1398_init_chain called for a chain in 0..2 that was not detected
\* (chips_per_chain = 0) returns an error; chip enumeration is never run
\* with a chip count of 0, so 256 / num_chips is never a division by zero.
C37_UndetectedChainRefused ==
    /\ (Returned("bm1398_init_chain") /\ chips_per_chain[call.chain] = 0) => ret < 0
    /\ ~EnumeratingWith(0)
    /\ status # "killed"

\* on a detected chain enumeration runs with the 114 chips of the chain and
\* the division is by 114
DetectedChainEnumerated ==
    (call.fn = "bm1398_init_chain" /\ chips_per_chain[call.chain] > 0) =>
        /\ \A k \in 1..Len(stack) :
               stack[k].fn = "bm1398_enumerate_chips" => stack[k].arg = CHIPS_PER_CHAIN_S19PRO
        /\ status # "killed"

----------------------------------------------------------------------------
(* The life of a context: the caller passes its context, or a null         *)
(* pointer, to bm1398_init, bm1398_cleanup, the indirect accessors and the *)
(* operations that test ctx->initialized, in any order.  What is followed  *)
(* here is which pointer each call dereferences; the contents of the       *)
(* window are left as they are.                                            *)

\* an access to memory through the pointer p: "mapped" is the mapping of the
\* window, the others point to no object
EvDeref(p) == <<"deref", p>>

\* a context that was never passed to bm1398_init: an automatic variable
\* (pattern_test.c declares "bm1398_context_t ctx;"), its fields hold anything
NeverInitialised == [fpga_regs : {"NULL", "MAP_FAILED", "wild"}, initialized : BOOLEAN]

InitLifecycle ==
    /\ InitCaller
    /\ ctx \in NeverInitialised
    /\ regs = BootWindow(Zero32)
    /\ chips_per_chain = DetectedChips({})
    /\ nonceFifo = <<>>
    /\ entry = [regs |-> regs, fifo |-> nonceFifo]

\* fn was called with the context (or NULL), dereferenced the pointers of
\* accesses, left the context as after and returned r.  A dereference of a
\* pointer to no object is undefined: the process is killed or goes on.
Ran(fn, null, r, accesses, after) ==
    /\ status \in {"idle", "returned"}
    /\ call' = [chain |-> 0, fn |-> fn, arg |-> [null |-> null, context |-> ctx]]
    /\ trace' = accesses
    /\ ctx' = after
    /\ ret' = r
    /\ \E crash \in BOOLEAN :
         /\ crash => \E k \in 1..Len(accesses) : accesses[k] # EvDeref("mapped")
         /\ status' = IF crash THEN "killed" ELSE "returned"
    /\ UNCHANGED <<regs, nonceFifo, stack, out, timeouts, sentAfterFail, checkedFail, hist,
                   entry, submitter, workFifo>>

\* bm1398_init: if (!ctx) return -1; memset; open; mmap; the rest runs on
\* the mapping
life_init ==
    \/ /\ Ran("bm1398_init", TRUE, -1, <<>>, ctx)
       /\ UNCHANGED chips_per_chain
    \/ \E after \in {ContextZeroed, ContextMapFailed} :
         /\ Ran("bm1398_init", FALSE, -1, <<>>, after)
         /\ chips_per_chain' = DetectedChips({})
    \/ \E detected \in PlugReads :
         /\ Ran("bm1398_init", FALSE, 0, <<EvDeref("mapped")>>, ContextReady)
         /\ chips_per_chain' = DetectedChips({c \in Chains : BitSet(detected, c)})

\* bm1398_cleanup: munmap and fpga_regs = NULL under the test of ctx and
\* ctx->fpga_regs, then ctx->initialized = false under no test
life_cleanup ==
    /\ \/ Ran("bm1398_cleanup", TRUE, 0, <<EvDeref("null ctx")>>, ctx)
       \/ Ran("bm1398_cleanup", FALSE, 0, <<>>,
              [fpga_regs |-> IF ctx.fpga_regs \in {"NULL", "MAP_FAILED"}
                             THEN ctx.fpga_regs ELSE "NULL",
               initialized |-> FALSE])
    /\ UNCHANGED chips_per_chain

\* fpga_read_indirect and fpga_write_indirect with an index in 0..109:
\* if (!ctx || !ctx->fpga_regs) return; then ctx->fpga_regs[word_offset]
life_indirect ==
    /\ \E fn \in {"fpga_read_indirect", "fpga_write_indirect"} : \E null \in BOOLEAN :
         IF null \/ ctx.fpga_regs = "NULL"
         THEN Ran(fn, null, 0, <<>>, ctx)
         ELSE Ran(fn, null, 0, <<EvDeref(ctx.fpga_regs)>>, ctx)
    /\ UNCHANGED chips_per_chain

\* the operations that begin with if (!ctx || !ctx->initialized) return -1
\* and then read the window
life_guarded ==
    /\ \E fn \in {"bm1398_get_nonce_count", "bm1398_check_work_fifo_ready"} :
       \E null \in BOOLEAN :
         IF null \/ ~ctx.initialized
         THEN Ran(fn, null, -1, <<>>, ctx)
         ELSE Ran(fn, null, 0, <<EvDeref(ctx.fpga_regs)>>, ctx)
    /\ UNCHANGED chips_per_chain

NextLifecycle ==
    \/ life_init
    \/ life_cleanup
    \/ life_indirect
    \/ life_guarded

SpecLifecycle == InitLifecycle /\ [][NextLifecycle]_vars

\* every access of the last call went to the mapping
OnValidMapping ==
    /\ status # "killed"
    /\ \A k \in 1..Len(trace) : trace[k][1] = "deref" => trace[k] = EvDeref("mapped")

\* C38: in every lifecycle state of the context (null, never initialised,
\* open failed, mmap failed, initialised, cleaned up), every public operation
\* either runs on a valid mapping or returns without dereferencing an invalid
\* pointer; in particular fpga_read_indirect / fpga_write_indirect after a
\* failed mmap and bm1398_cleanup on a null context touch no memory.
C38_LifecycleSafe ==
    /\ OnValidMapping
    /\ (call.fn \in {"fpga_read_indirect", "fpga_write_indirect"}
        /\ call.arg.context = ContextMapFailed) => trace = <<>>
    /\ (call.fn = "bm1398_cleanup" /\ call.arg.null) => trace = <<>>

\* a call with a context that bm1398_init set up or failed to open, or that
\* bm1398_cleanup released, runs on the mapping or touches nothing
SafeOnceInitOrCleanupRan ==
    (call.fn # "" /\ ~call.arg.null /\ call.arg.context \in {ContextReady, ContextZeroed}) =>
        OnValidMapping

----------------------------------------------------------------------------
(* Two logical indices: fpga_write_indirect(i, v), then                    *)
(* fpga_read_indirect(j) with j # i.                                       *)

\* the value written: no word of the window holds it at the start
AliasValue == <<\hDE, \hAD, \hBE, \hEF>>

LogicalIndices == 0..(FPGA_REGISTER_MAP_SIZE - 1)

\* the index written is any; the index read is up to MaxApart away from it,
\* going round from 109 to 0
CallWriteReadOther ==
    \E index \in LogicalIndices : \E apart \in 1..MaxApart : \E up \in BOOLEAN :
        Enter("write_read_other", 0,
              [value |-> AliasValue, index |-> index, mapped |-> TRUE,
               other |-> (index + (IF up THEN apart ELSE FPGA_REGISTER_MAP_SIZE - apart))
                             % FPGA_REGISTER_MAP_SIZE])

NextAlias ==
    \/ CallWriteReadOther
    \/ call_step
    \/ write_indirect_step
    \/ load_indirect_step
    \/ return_step

SpecAlias == InitWork /\ [][NextAlias]_vars

\* the pair of indices the spec names as sharing a word
NamedPair == {16, 17}

\* C39: apart from the pair 16/17 that the spec names, distinct logical
\* indices in 0..109 resolve to distinct words of the window, so
\* fpga_write_indirect(i, v) never changes what fpga_read_indirect(j)
\* returns for any j != i, and no index other than 16 can push a word into
\* the work FIFO at 0x040.
C39_DistinctIndicesDistinctWords ==
    call.fn = "write_read_other" =>
        LET i == call.arg.index
            j == call.arg.other
        IN  /\ (status = "returned" /\ {i, j} # NamedPair) => out = <<entry.regs[MAP(j)]>>
            /\ workFifo # <<>> => i = 16
            /\ status = "returned" =>
                   \A a \in LogicalIndices : \A b \in (a + 1)..(FPGA_REGISTER_MAP_SIZE - 1) :
                       {a, b} # NamedPair => MAP(a) # MAP(b)

\* the indices that share a word in the table: 0, 24, 108 and 109 (word 0),
\* and 15 and 16 (word 16, the work FIFO); every other pair is apart, and a
\* write to one index of such a pair leaves the other as it was
SharedWords == {{0, 24, 108, 109}, {15, 16}}

AliasesAreSharedWords ==
    call.fn = "write_read_other" =>
        LET i == call.arg.index
            j == call.arg.other
        IN  /\ status = "returned" =>
                   out = <<IF MAP(i) = MAP(j) THEN call.arg.value ELSE entry.regs[MAP(j)]>>
            /\ workFifo # <<>> => i \in {15, 16}
            /\ status = "returned" =>
                   \A a \in LogicalIndices : \A b \in (a + 1)..(FPGA_REGISTER_MAP_SIZE - 1) :
                       (MAP(a) = MAP(b)) = \E group \in SharedWords : {a, b} \subseteq group

====
